---------------------------- MODULE Spec2Model ----------------------------
(***************************************************************************)
(* CineGrid (daijiaran/cinegrid): the generation task pipeline of          *)
(* StoryboardApp.jsx, the remote calls of utils/api.js, the processing     *)
(* queue and upscale batches of MiddlePanel.jsx / StoryboardApp.jsx and    *)
(* the video cards and merge of VideoGenerationPanel.jsx.                  *)
(*                                                                         *)
(* Scheduling model (React on a single-threaded event loop):               *)
(*  - a user event handler runs to completion against the state of the     *)
(*    last render, and its state updates are committed before the next     *)
(*    event; it is one action;                                             *)
(*  - an async function is cut at its awaits: every stretch of code        *)
(*    between two awaits is one action; the code after an await still      *)
(*    reads the props/state captured by the render in which the function   *)
(*    was started (a stale closure), while functional updates              *)
(*    setX(prev => ...) apply to the latest state.                         *)
(*                                                                         *)
(* JavaScript strings that are not ASCII are written as ASCII tags; the    *)
(* definition of each tag names the literal of the source.                 *)
(***************************************************************************)
EXTENDS Naturals, Integers, Sequences, FiniteSets, TLC

VARIABLES
    (* StoryboardApp.jsx *)
    tasks,          \* useState tasks: most recent first
    proc,           \* per task id: the running processGenerationTask
    currentTaskId,  \* useState currentTaskId (0 = null)
    generatedImage, \* useState generatedImage
    slicedImages,   \* useState slicedImages
    gridMode,       \* useState gridMode
    errorModal,     \* useState errorModal
    now,            \* Date.now(), in units of the submit debounce
    isSubmitting,   \* LeftPanel isSubmitting (1 s debounce)
    (* utils/api.js *)
    call,           \* one generateSoraImage / generateGrsaiImage /
                    \* generateSoraVideo call, step by step
    (* StoryboardApp.jsx / MiddlePanel.jsx: upscale queue *)
    processingQueue,    \* useState processingQueue
    upscaledResults,    \* useState upscaledResults
    isUpscaling,        \* useState isUpscaling
    upscaleModel,       \* useState upscaleModel
    isJimengProcessing, \* MiddlePanel useState isJimengProcessing
    draggedIndex,       \* MiddlePanel useState draggedIndex (-1 = null)
    batch,              \* the running handleUpscale / handleJimengProcessing
    (* VideoGenerationPanel.jsx *)
    cards,          \* useState cards
    mergeState,     \* useState mergeState
    gens,           \* the running handleGenerateVideo calls
    merge,          \* the running handleMergeVideos
    db,             \* the IndexedDB store of the cards and its effects
    panel,          \* useState draggedCardIndex and synthesisState
    (* LeftPanel.jsx: the Generate button *)
    click,          \* the clock in ms, the debounce timers, localProcessing
    (* Functions applied to arguments of their own *)
    args,           \* the function called and its arguments
    result          \* what it returned

taskVars == <<tasks, proc, currentTaskId, generatedImage, slicedImages,
              gridMode, errorModal, now, isSubmitting>>

callVars == <<call>>

upVars == <<processingQueue, upscaledResults, isUpscaling, upscaleModel,
            isJimengProcessing, draggedIndex, batch>>

videoVars == <<cards, mergeState, gens, merge>>

fnVars == <<args, result>>

dbVars == <<db>>

clickVars == <<click>>

panelVars == <<panel>>

vars ==
    <<taskVars, callVars, upVars, videoVars, fnVars, dbVars, clickVars,
      panelVars>>

(* What the actions of one component leave alone *)
exceptTasks ==
    <<callVars, upVars, videoVars, fnVars, dbVars, clickVars, panelVars>>
exceptCall ==
    <<upVars, videoVars, fnVars, dbVars, clickVars, panelVars>>
exceptUp ==
    <<callVars, videoVars, fnVars, dbVars, clickVars, panelVars>>
exceptVideo ==
    <<taskVars, callVars, upVars, fnVars, dbVars, clickVars, panelVars>>
exceptFn ==
    <<taskVars, callVars, upVars, videoVars, dbVars, clickVars, panelVars>>
exceptStore ==
    <<taskVars, callVars, upVars, fnVars, clickVars, panelVars>>
exceptClick ==
    <<callVars, upVars, videoVars, fnVars, dbVars, panelVars>>
exceptPanel == <<taskVars, callVars, upVars, fnVars, dbVars, clickVars>>


-----------------------------------------------------------------------------
(* Bounds of the model *)
MaxTasks == 2           \* number of submissions explored

(* Input sets *)
GridModes == {"2x2", "3x3"}
Models == {"nano-banana-pro"}     \* genOptions.model of the submissions

TaskIds == 1..MaxTasks

(* JavaScript null for a URL, and URL handles.  kind is "remote" (hosted   *)
(* URL returned by the job), "blob" (URL.createObjectURL of the image),    *)
(* "errorBlob" (URL.createObjectURL of the body of an error response) or   *)
(* "mock" (placehold.co URL of mockGenerateStoryboard); job is the task it *)
(* belongs to.                                                             *)
NULL == [kind |-> "null", job |-> 0]
Url(k, id) == [kind |-> k, job |-> id]

(* Error messages (Error.message).  The source literals are:               *)
(*   MsgYiQuXiao          "已取消"            api.js:574                     *)
(*   MsgYongHuQuXiao      "用户取消"          api.js:369                     *)
(*   MsgYongHuQuXiaoQing  "用户取消请求"      api.js:462                     *)
(*   MsgUserCancelled     "User cancelled."   api.js:194                   *)
(*   MsgAbortError        message of the DOMException AbortError with which *)
(*                        fetch rejects when its signal is aborted          *)
MsgYiQuXiao == "yi qu xiao"
MsgYongHuQuXiao == "yong hu qu xiao"
MsgYongHuQuXiaoQing == "yong hu qu xiao qing qiu"
MsgUserCancelled == "User cancelled."
MsgAbortError == "The user aborted a request."
MsgSubmitError == "Submit Error"
MsgNoTaskId == "No Task ID returned"
MsgNoUrl == "succeeded but no URL"
MsgTaskFailed == "Task Failed"
MsgTimeout == "Timeout: Max polling attempts reached"
MsgNetwork == "Failed to fetch"
MsgConfigMissing == "pei zhi que shi"
MsgAssetFailed == "Failed to load image"
MsgSliceFailed == "tu pian jia zai shi bai (CORS)"
MsgUndefined == "undefined"

(* performSlicing: rows and cols of a grid mode (StoryboardApp.jsx:308-309) *)
GridRows(mode) == IF mode = "2x2" THEN 2 ELSE 3
GridCols(mode) == IF mode = "2x2" THEN 2 ELSE 3

(* The slices pushed by the two nested loops of performSlicing, row-major: *)
(* the k-th slice (k = 1..rows*cols) is cell y = (k-1) \div cols,          *)
(* x = (k-1) % cols, cut from imageUrl.  Its id is                         *)
(* `slice-${y}-${x}-${Date.now()}-${Math.random()}`: y, x and a part that  *)
(* is new in every slicing, for which the job of the image stands (an      *)
(* image is sliced once, when its task succeeds).                          *)
(* aspectRatio: shotSize.w / shotSize.h of the default genOptions          *)
(* (shotWidth: 1920, shotHeight: 1080), as a fraction.                     *)
ShotRatio == <<16, 9>>

performSlicing(imageUrl, mode) ==
    [k \in 1..(GridRows(mode) * GridCols(mode)) |->
        [id |-> <<(k - 1) \div GridCols(mode), (k - 1) % GridCols(mode),
                 imageUrl.job>>,
         aspectRatio |-> ShotRatio,
         src |-> imageUrl,
         y |-> (k - 1) \div GridCols(mode),
         x |-> (k - 1) % GridCols(mode)]]

(* handleGenerate: the new task object *)
NewTask(id, grid, model, assets) ==
    [id |-> id, status |-> "loading", gridMode |-> grid,
     imageUrl |-> NULL, slices |-> <<>>,
     params |-> [grid |-> grid, model |-> model, assets |-> assets]]

(* Array helpers on the task list *)
MapSeq(s, F(_)) == [i \in 1..Len(s) |-> F(s[i])]
FilterSeq(s, P(_)) == SelectSeq(s, P)

(* MarkSuccess with the status left as it was *)
MarkSuccessKeepsStatus(prev, id, imageUrl, slices) ==
    LET F(t) == IF t.id = id
                THEN [t EXCEPT !.imageUrl = imageUrl, !.slices = slices]
                ELSE t
    IN  [i \in 1..Len(prev) |-> F(prev[i])]

(* MarkError without the test of the id *)
MarkErrorAll(prev, id) ==
    [i \in 1..Len(prev) |-> [prev[i] EXCEPT !.status = "error"]]

(* RemoveTask with the filter inverted *)
RemoveOtherTasks(prev, taskId) ==
    LET P(t) == t.id = taskId IN SelectSeq(prev, P)

(* setTasks(prev => prev.map(t => t.id === id ? {...t, status: 'success', *)
(* imageUrl, slices} : t))                                                 *)
MarkSuccess(prev, id, imageUrl, slices) ==
    LET F(t) == IF t.id = id
                THEN [t EXCEPT !.status = "success", !.imageUrl = imageUrl,
                               !.slices = slices]
                ELSE t
    IN  MapSeq(prev, F)

(* MarkError that records nothing *)
MarkErrorNowhere(prev, id) == prev

(* setTasks(prev => prev.map(t => t.id === id ? {...t, status: 'error'} : t)) *)
MarkError(prev, id) ==
    LET F(t) == IF t.id = id THEN [t EXCEPT !.status = "error"] ELSE t
    IN  MapSeq(prev, F)

(* setTasks(prev => prev.filter(t => t.id !== taskId)) *)
RemoveTask(prev, taskId) ==
    LET P(t) == t.id # taskId IN FilterSeq(prev, P)

(* The catch block's test for showing the modal *)
IsCancelMessage(message) ==
    message = MsgYiQuXiao \/ message = MsgYongHuQuXiao

(* The state of a processGenerationTask that has returned: its locals are *)
(* dead.                                                                   *)
DoneProc ==
    [pc |-> "done", task |-> NewTask(0, "3x3", "sora-image", FALSE),
     useMock |-> FALSE, imageUrl |-> NULL]

(* The state of a processGenerationTask that has not been started *)
NoProc == [pc |-> "none", task |-> NewTask(0, "3x3", "sora-image", FALSE),
           useMock |-> FALSE, imageUrl |-> NULL]


-----------------------------------------------------------------------------
(* Generation Task Orchestrator: StoryboardApp.jsx                         *)

(* errorModal: the model keeps its visible flag; the message is only       *)
(* rendered.                                                               *)
HiddenModal == [visible |-> FALSE]
ShownModal(message) == [visible |-> TRUE]

InitTasks ==
    /\ tasks = <<>>
    /\ proc = [t \in TaskIds |-> NoProc]
    /\ currentTaskId = 0
    /\ generatedImage = NULL
    /\ slicedImages = <<>>
    /\ gridMode = "3x3"
    /\ errorModal = HiddenModal
    /\ now = 1
    /\ isSubmitting = FALSE

(* What the awaited generateSoraImage / generateGrsaiImage (nano-banana    *)
(* branch) can settle with once the submit request is in flight, up to the *)
(* re-fetch of the result: "succeeded" stands for a poll that reported     *)
(* succeeded with a URL, every other element is the message of the Error   *)
(* thrown.  The AbortController of processGenerationTask (line 505) is a   *)
(* local that is handed to nobody but the call, and no code calls its      *)
(* abort(): the signal of a task of the application is never raised.  The  *)
(* call machine below takes the signal as an input.                        *)
RemoteOutcomes(model) ==
    {"succeeded", MsgSubmitError, MsgNoTaskId, MsgNetwork,
     MsgTaskFailed, MsgNoUrl, MsgTimeout}

(* The first await reached by processGenerationTask(task), which           *)
(* handleGenerate calls synchronously: the Promise.all over the assets if  *)
(* there are any, else the mock delay or the submit request.               *)
StartProc(task, useMock) ==
    [pc |-> IF task.params.assets THEN "assets" ELSE "remote",
     task |-> task, useMock |-> useMock, imageUrl |-> NULL]

(* LeftPanel handleGenerateClick + handleGenerate.  promptEmpty, useMock,  *)
(* configOk, model and assets are the values of the form at the click.     *)
handleGenerate(promptEmpty, useMock, configOk, model, assets) ==
    /\ ~isSubmitting
    /\ now \in TaskIds
    /\ proc[now].pc = "none"
    /\ isSubmitting' = TRUE
    /\ IF promptEmpty
       THEN /\ errorModal' = ShownModal("Empty Prompt")
            /\ UNCHANGED <<tasks, proc>>
       ELSE IF ~useMock /\ ~configOk
       THEN /\ errorModal' = ShownModal("Config Missing")
            /\ UNCHANGED <<tasks, proc>>
       ELSE LET newTask == NewTask(now, gridMode, model, assets) IN
            /\ tasks' = <<newTask>> \o tasks
            /\ proc' = [proc EXCEPT ![now] = StartProc(newTask, useMock)]
            /\ UNCHANGED errorModal
    /\ UNCHANGED <<currentTaskId, generatedImage, slicedImages, gridMode, now>>

(* setTimeout(() => setIsSubmitting(false), 1000): a second has passed     *)
DebounceElapsed ==
    /\ isSubmitting
    /\ isSubmitting' = FALSE
    /\ now' = now + 1
    /\ UNCHANGED <<tasks, proc, currentTaskId, generatedImage, slicedImages,
                   gridMode, errorModal>>

(* The catch block of processGenerationTask *)
CatchError(t, message) ==
    /\ proc' = [proc EXCEPT ![t] = DoneProc]
    /\ tasks' = MarkError(tasks, proc[t].task.id)
    /\ errorModal' = IF IsCancelMessage(message) THEN errorModal
                     ELSE ShownModal(message)
    /\ UNCHANGED <<currentTaskId, generatedImage, slicedImages, gridMode,
                   now, isSubmitting>>

(* await Promise.all(task.params.assets.map(urlToBase64)) settles *)
AssetsSettle(t, ok) ==
    /\ proc[t].pc = "assets"
    /\ IF ok
       THEN /\ proc' = [proc EXCEPT ![t].pc = "remote"]
            /\ UNCHANGED <<tasks, currentTaskId, generatedImage, slicedImages,
                           gridMode, errorModal, now, isSubmitting>>
       ELSE CatchError(t, MsgAssetFailed)

(* imageUrl = await <the generation call> has a value: performSlicing is   *)
(* started and awaited                                                     *)
CallReturns(t, url) ==
    /\ proc' = [proc EXCEPT ![t].pc = "slicing", ![t].imageUrl = url]
    /\ UNCHANGED <<tasks, currentTaskId, generatedImage, slicedImages,
                   gridMode, errorModal, now, isSubmitting>>

(* await mockGenerateStoryboard(apiParams) settles                         *)
MockSettles(t) ==
    /\ proc[t].pc = "remote"
    /\ proc[t].useMock
    /\ CallReturns(t, Url("mock", proc[t].task.id))

(* The remote call reaches a poll reporting succeeded (it goes on to the   *)
(* re-fetch of the result) or throws.                                      *)
RemoteSettles(t, outcome) ==
    /\ proc[t].pc = "remote"
    /\ ~proc[t].useMock
    /\ outcome \in RemoteOutcomes(proc[t].task.params.model)
    /\ IF outcome = "succeeded"
       THEN /\ proc' = [proc EXCEPT ![t].pc = "refetch"]
            /\ UNCHANGED <<tasks, currentTaskId, generatedImage, slicedImages,
                           gridMode, errorModal, now, isSubmitting>>
       ELSE CatchError(t, outcome)

(* fetch(finalUrl) without the signal: a blob URL if it succeeds, the      *)
(* remote URL if it fails; then performSlicing starts.                     *)
RefetchSettles(t, ok) ==
    /\ proc[t].pc = "refetch"
    /\ CallReturns(t, Url(IF ok THEN "blob" ELSE "remote", proc[t].task.id))

(* The code of processGenerationTask after a successful performSlicing *)
TaskSucceeds(t, slices) ==
    /\ proc' = [proc EXCEPT ![t] = DoneProc]
    /\ tasks' = MarkSuccess(tasks, proc[t].task.id, proc[t].imageUrl, slices)
    /\ currentTaskId' = proc[t].task.id
    /\ generatedImage' = proc[t].imageUrl
    /\ slicedImages' = slices
    /\ gridMode' = proc[t].task.params.grid
    /\ UNCHANGED <<errorModal, now, isSubmitting>>

(* The grid of the render in which the slicing settles *)
SliceModeOfRender(t) == gridMode

(* task.params.grid, the second argument of performSlicing *)
SliceMode(t) == proc[t].task.params.grid

(* await performSlicing(...) settles: img.onload or img.onerror *)
SlicingSettles(t, loaded) ==
    /\ proc[t].pc = "slicing"
    /\ IF loaded
       THEN TaskSucceeds(t, performSlicing(proc[t].imageUrl, SliceMode(t)))
       ELSE CatchError(t, IF proc[t].useMock THEN MsgUndefined
                          ELSE MsgSliceFailed)

(* RightPanel click on the i-th task of the list *)
handleTaskSelect(i) ==
    /\ i \in 1..Len(tasks)
    /\ tasks[i].status = "success"
    /\ currentTaskId' = tasks[i].id
    /\ generatedImage' = tasks[i].imageUrl
    /\ slicedImages' = tasks[i].slices
    /\ gridMode' = tasks[i].gridMode
    /\ UNCHANGED <<tasks, proc, errorModal, now, isSubmitting>>

(* RightPanel delete button of the i-th task of the list *)
handleDeleteTask(i) ==
    /\ i \in 1..Len(tasks)
    /\ tasks' = RemoveTask(tasks, tasks[i].id)
    /\ IF currentTaskId = tasks[i].id
       THEN /\ generatedImage' = NULL
            /\ slicedImages' = <<>>
            /\ currentTaskId' = 0
       ELSE UNCHANGED <<generatedImage, slicedImages, currentTaskId>>
    /\ UNCHANGED <<proc, gridMode, errorModal, now, isSubmitting>>

(* The CLOSE button of the error modal *)
closeErrorModal ==
    /\ errorModal.visible
    /\ errorModal' = HiddenModal
    /\ UNCHANGED <<tasks, proc, currentTaskId, generatedImage, slicedImages,
                   gridMode, now, isSubmitting>>

(* LeftPanel onGridModeChange *)
setGridMode(mode) ==
    /\ mode # gridMode
    /\ gridMode' = mode
    /\ UNCHANGED <<tasks, proc, currentTaskId, generatedImage, slicedImages,
                   errorModal, now, isSubmitting>>

(* One step of the processing of task t, the remote call taken as a whole *)
ProcStep(t) ==
    \/ MockSettles(t)
    \/ \E o \in RemoteOutcomes(proc[t].task.params.model) :
           RemoteSettles(t, o)
    \/ \E ok \in BOOLEAN : RefetchSettles(t, ok)
    \/ \E loaded \in BOOLEAN : SlicingSettles(t, loaded)

-----------------------------------------------------------------------------
(* Remote Task Client: utils/api.js, one call followed step by step        *)

MAX_ATTEMPTS_IMAGE == 450
MAX_ATTEMPTS_VIDEO == 600
MAX_RETRIES == 1

NanoBananaModels == {"nano-banana-fast", "nano-banana", "nano-banana-pro"}
CallModels == {"sora-image", "nano-banana-pro", "gemini"}

(* Which code serves a model: processGenerationTask calls generateSoraImage *)
(* for 'sora-image' and generateGrsaiImage otherwise, which takes its      *)
(* nano-banana branch when the name includes 'nano-banana'.                *)
Protocol(model) ==
    IF model = "sora-image" THEN "sora"
    ELSE IF model \in NanoBananaModels THEN "nano"
    ELSE "gemini"

MaxAttempts(kind) ==
    IF kind = "video" THEN MAX_ATTEMPTS_VIDEO ELSE MAX_ATTEMPTS_IMAGE

(* More messages of api.js.  Source literals: Msg404 "端点 404: ...",       *)
(* Msg429 "API 限流 (429): ...", MsgClientError "客户端错误 (status): ...",  *)
(* MsgServerError "服务端错误 (status)", MsgCandidatesEmpty "未解析到有效   *)
(* 内容 (Candidates Empty)", MsgNoImage "响应解析完成，但未发现图片数据".   *)
Msg404 == "duan dian 404"
Msg429 == "API xian liu (429)"
MsgClientError == "ke hu duan cuo wu"
MsgServerError == "fu wu duan cuo wu"
MsgCandidatesEmpty == "Candidates Empty"
MsgNoImage == "wei fa xian tu pian shu ju"

(* The task whose call is followed *)
CallTask == 1

IdleCall ==
    [kind |-> "none", pc |-> "idle", configOk |-> TRUE, i |-> 0,
     attempt |-> 0, polls |-> 0, requests |-> 0,
     signal |-> FALSE, aborted |-> FALSE, detached |-> FALSE,
     submitResp |-> "none", lastPoll |-> "none", message |-> "",
     url |-> NULL]

(* The call was not made by processGenerationTask: generateSoraVideo, or   *)
(* an image call of handleUpscale, whose Error goes to the catch block of  *)
(* that caller.                                                            *)
Detached(c) == c.kind = "video" \/ c.detached

(* signal?.aborted; generateSoraVideo takes no signal *)
Signal(c) == c.kind # "video" /\ c.signal

(* The call throws: for an image call the Error reaches the catch block of *)
(* processGenerationTask in the same turn of the event loop.               *)
CallThrow(c, message) ==
    /\ call' = [c EXCEPT !.pc = "thrown", !.message = message]
    /\ IF Detached(c) THEN UNCHANGED taskVars
       ELSE CatchError(CallTask, message)

CallReturn(c, url) ==
    /\ call' = [c EXCEPT !.pc = "returned", !.url = url]
    /\ IF Detached(c) THEN UNCHANGED taskVars
       ELSE CallReturns(CallTask, url)

CallGoto(c) ==
    /\ call' = c
    /\ UNCHANGED taskVars

(* The loop condition written i <= MAX_ATTEMPTS *)
LoopContinuesOneMore(i, kind) == i <= MaxAttempts(kind)

(* for (let i = 0; i < MAX_ATTEMPTS; i++) *)
LoopContinues(i, kind) == i < MaxAttempts(kind)

(* The message thrown by the check of the signal at the top of the loop *)
LoopCancelMessage(kind) ==
    IF kind = "sora" THEN MsgUserCancelled ELSE MsgYongHuQuXiao

(* LoopTop without the await of the delay: the poll request is sent at     *)
(* once                                                                    *)
LoopTopNoDelay(c, i) ==
    IF LoopContinues(i, c.kind)
    THEN IF Signal(c)
         THEN CallThrow(c, LoopCancelMessage(c.kind))
         ELSE CallGoto([c EXCEPT !.i = i, !.pc = "poll",
                                 !.polls = c.polls + 1,
                                 !.requests = c.requests + 1,
                                 !.lastPoll = "pending"])
    ELSE CallThrow(c, MsgTimeout)

(* Top of the polling loop with loop variable i: the loop condition, the   *)
(* check of the signal, then the await of the delay.                       *)
LoopTop(c, i) ==
    IF LoopContinues(i, c.kind)
    THEN IF Signal(c)
         THEN CallThrow(c, LoopCancelMessage(c.kind))
         ELSE CallGoto([c EXCEPT !.i = i, !.pc = "sleep"])
    ELSE CallThrow(c, MsgTimeout)

(* The submit response accepted without the test of the task id *)
HasTaskIdUnchecked(resp) == resp \in {"id", "noid"}

(* const taskId = submitJson?.data?.id (|| initResult?.id); if (!taskId) ... *)
HasTaskId(resp) == resp = "id"

(* Top of the retry loop of the streamed-or-buffered branch *)
RetryTop(c, attempt, lastError) ==
    IF attempt <= MAX_RETRIES
    THEN IF Signal(c)
         THEN CallThrow(c, MsgYongHuQuXiaoQing)
         ELSE IF attempt > 0
         THEN CallGoto([c EXCEPT !.attempt = attempt, !.pc = "retryDelay",
                                 !.message = lastError])
         ELSE CallGoto([c EXCEPT !.attempt = attempt, !.pc = "stream",
                                 !.requests = c.requests + 1])
    ELSE CallThrow(c, lastError)

(* The call starts: configuration check, then the first request *)
(* CallBegin without the test of baseUrl and apiKey *)
CallBeginUnchecked ==
    /\ call.pc = "idle"
    /\ call.kind # "none"
    /\ Detached(call) \/ (proc[CallTask].pc = "remote"
                            /\ ~proc[CallTask].useMock)
    /\ IF call.kind = "gemini"
       THEN RetryTop(call, 0, "")
       ELSE IF Signal(call)
       THEN CallThrow(call, MsgAbortError)
       ELSE CallGoto([call EXCEPT !.pc = "submit", !.requests = 1])

CallBegin ==
    /\ call.pc = "idle"
    /\ call.kind # "none"
    /\ Detached(call) \/ (proc[CallTask].pc = "remote"
                            /\ ~proc[CallTask].useMock)
    /\ IF ~call.configOk
       THEN CallThrow(call, MsgConfigMissing)
       ELSE IF call.kind = "gemini"
       THEN RetryTop(call, 0, "")
       ELSE IF Signal(call)
       THEN CallThrow(call, MsgAbortError)
       ELSE CallGoto([call EXCEPT !.pc = "submit", !.requests = 1])

SubmitResponses == {"aborted", "network", "notok", "noid", "id"}

(* await fetch(completionUrl, {signal}) and the read of its body settle *)
SubmitSettles(resp) ==
    /\ call.pc = "submit"
    /\ resp \in SubmitResponses
    /\ (resp = "aborted") = Signal(call)
    /\ LET c == [call EXCEPT !.submitResp = resp] IN
       CASE resp = "aborted" -> CallThrow(c, MsgAbortError)
         [] resp = "network" -> CallThrow(c, MsgNetwork)
         [] resp = "notok" -> CallThrow(c, MsgSubmitError)
         [] OTHER -> IF HasTaskId(resp) THEN LoopTop(c, 0)
                     ELSE CallThrow(c, MsgNoTaskId)

(* await new Promise(r => setTimeout(r, DELAY_MS)) is over: the poll       *)
(* request is sent, unless the signal is already aborted, in which case    *)
(* fetch rejects without a request.                                        *)
SleepElapsed ==
    /\ call.pc = "sleep"
    /\ IF Signal(call)
       THEN CallThrow(call, MsgAbortError)
       ELSE CallGoto([call EXCEPT !.pc = "poll", !.polls = call.polls + 1,
                                  !.requests = call.requests + 1,
                                  !.lastPoll = "pending"])

PollResponses == {"aborted", "network", "notok", "running", "failed",
                  "succeeded", "succeededNoUrl"}

(* await fetch(resultUrl, {signal}) and the read of its body settle *)
PollSettles(resp) ==
    /\ call.pc = "poll"
    /\ resp \in PollResponses
    /\ (resp = "aborted") = Signal(call)
    /\ LET c == [call EXCEPT !.lastPoll = resp] IN
       CASE resp = "aborted" -> CallThrow(c, MsgAbortError)
         [] resp = "network" -> CallThrow(c, MsgNetwork)
         [] resp \in {"notok", "running"} -> LoopTop(c, c.i + 1)
         [] resp = "failed" -> CallThrow(c, MsgTaskFailed)
         [] resp = "succeededNoUrl" -> CallThrow(c, MsgNoUrl)
         [] OTHER ->
              IF c.kind = "video"
              THEN CallReturn(c, Url("remote", CallTask))
              ELSE CallGoto([c EXCEPT !.pc = "refetch",
                                      !.requests = c.requests + 1])

(* What await fetch(finalUrl) and await imgResp.blob() settle with: the    *)
(* image, a response with an error status (fetch fulfils whatever the      *)
(* status, and blob() gives its body), or a rejection (network, CORS).     *)
RefetchOutcomes == {"image", "status", "rejected"}

(* try { imgResp = await fetch(finalUrl); blob = await imgResp.blob();     *)
(* return URL.createObjectURL(blob) } catch (e) { return finalUrl }: the   *)
(* kind of URL returned.  imgResp.ok is not tested: "errorBlob" is the     *)
(* blob URL of the body of an error response.                              *)
RefetchedKind(outcome) ==
    CASE outcome = "image" -> "blob"
      [] outcome = "status" -> "errorBlob"
      [] OTHER -> "remote"

(* await fetch(finalUrl) / imgResp.blob() settle; no signal is passed *)
CallRefetchSettles(outcome) ==
    /\ call.pc = "refetch"
    /\ outcome \in RefetchOutcomes
    /\ CallReturn(call, Url(RefetchedKind(outcome), CallTask))

(* The delay before a retry is over: the request is sent, unless the       *)
(* signal is aborted: fetch rejects with the AbortError, which the catch   *)
(* turns into MsgYiQuXiao.                                                 *)
RetryDelayElapsed ==
    /\ call.pc = "retryDelay"
    /\ IF Signal(call)
       THEN CallThrow(call, MsgYiQuXiao)
       ELSE CallGoto([call EXCEPT !.pc = "stream",
                                  !.requests = call.requests + 1])

StreamResponses == {"aborted", "network", "404", "429", "4xx", "5xx",
                    "empty", "noimage", "image"}

(* The errors after which the catch block breaks out of the retry loop:    *)
(* the message includes "404", "429" or "客户端错误"                       *)
(* Every failure is retried *)
RetryAlways(message) == FALSE

NoRetry(message) == message \in {Msg404, Msg429, MsgClientError}

(* The catch block of the retry loop for an error other than the AbortError *)
StreamFails(c, message) ==
    IF NoRetry(message)
    THEN CallThrow(c, message)
    ELSE RetryTop(c, c.attempt + 1, message)

(* await fetch(apiUrl, {signal}) and response.text() settle *)
StreamSettles(resp) ==
    /\ call.pc = "stream"
    /\ resp \in StreamResponses
    /\ (resp = "aborted") = Signal(call)
    /\ LET c == [call EXCEPT !.lastPoll = resp] IN
       CASE resp = "aborted" -> CallThrow(c, MsgYiQuXiao)
         [] resp = "network" -> StreamFails(c, MsgNetwork)
         [] resp = "404" -> StreamFails(c, Msg404)
         [] resp = "429" -> StreamFails(c, Msg429)
         [] resp = "4xx" -> StreamFails(c, MsgClientError)
         [] resp = "5xx" -> StreamFails(c, MsgServerError)
         [] resp = "empty" -> StreamFails(c, MsgCandidatesEmpty)
         [] resp = "noimage" -> StreamFails(c, MsgNoImage)
         [] OTHER -> CallReturn(c, Url("data", CallTask))

(* The signal handed to the call is raised (abort() of its controller)     *)
(* while the followed task is being processed; call.aborted remembers that *)
(* it was raised while generateSoraImage / generateGrsaiImage was running. *)
abortCall ==
    /\ proc[CallTask].pc \in {"assets", "remote", "slicing"}
    /\ (proc[CallTask].pc = "remote" /\ ~proc[CallTask].useMock)
           => call.pc # "idle"
    /\ ~call.signal
    /\ call' = [call EXCEPT !.signal = TRUE,
                            !.aborted = (proc[CallTask].pc = "remote"
                                         /\ ~proc[CallTask].useMock)]
    /\ UNCHANGED taskVars

(* The one submission of this specification *)
submitCallTask(useMock, model, assets) ==
    /\ tasks = <<>>
    /\ now = CallTask
    /\ handleGenerate(FALSE, useMock, TRUE, model, assets)
    /\ call' = [IdleCall EXCEPT !.kind = IF useMock THEN "none"
                                         ELSE Protocol(model)]

(* VideoGenerationPanel handleGenerateVideo calls generateSoraVideo; it    *)
(* checks config.apiKey only, so the call can start without a baseUrl.     *)
startVideoCall(configOk) ==
    /\ tasks = <<>>
    /\ proc[CallTask].pc = "none"
    /\ call.pc = "idle"
    /\ call.kind = "none"
    /\ call' = [IdleCall EXCEPT !.kind = "video", !.configOk = configOk]
    /\ UNCHANGED taskVars

(* handleUpscale calls generateSoraImage / generateGrsaiImage for an item  *)
(* of its queue with the config of its render, which it does not test.     *)
startUpscaleCall(model, configOk) ==
    /\ tasks = <<>>
    /\ proc[CallTask].pc = "none"
    /\ call.pc = "idle"
    /\ call.kind = "none"
    /\ call' = [IdleCall EXCEPT !.kind = Protocol(model),
                                !.configOk = configOk, !.detached = TRUE]
    /\ UNCHANGED taskVars

(* A click on GENERATE in non-mock mode with baseUrl or apiKey missing *)
handleGenerateUnconfigured(model) ==
    /\ handleGenerate(FALSE, FALSE, FALSE, model, FALSE)
    /\ UNCHANGED call

(* A second task submitted while the followed one is being processed *)
OtherTask == 2

(* One controller for every task *)
SharedController(t) == 0

(* const controller = new AbortController() in processGenerationTask: the  *)
(* controller is a local of the invocation, named here by the task's id.   *)
ControllerOf(t) == t

(* The signal handed to the call of task t is raised: the only abort       *)
(* explored is that of the controller of the followed task.                *)
TokenRaised(t) == call.signal /\ ControllerOf(t) = ControllerOf(CallTask)

(* The second click on GENERATE, once the debounce of the first is over *)
submitOtherTask(useMock, model) ==
    /\ now = OtherTask
    /\ Len(tasks) = 1
    /\ handleGenerate(FALSE, useMock, TRUE, model, FALSE)
    /\ UNCHANGED call

(* The remote call of the second task settles: its requests carry the      *)
(* signal of its own controller and are rejected when that is raised.      *)
OtherRemoteSettles(outcome) ==
    /\ proc[OtherTask].pc = "remote"
    /\ ~proc[OtherTask].useMock
    /\ IF TokenRaised(OtherTask)
       THEN CatchError(OtherTask, MsgAbortError)
       ELSE RemoteSettles(OtherTask, outcome)
    /\ UNCHANGED call

(* One step of the processing of the second task *)
OtherStep ==
    \/ MockSettles(OtherTask) /\ UNCHANGED call
    \/ \E o \in RemoteOutcomes("nano-banana-pro") : OtherRemoteSettles(o)
    \/ \E ok \in BOOLEAN : RefetchSettles(OtherTask, ok) /\ UNCHANGED call
    \/ \E loaded \in BOOLEAN :
           SlicingSettles(OtherTask, loaded) /\ UNCHANGED call

-----------------------------------------------------------------------------
(* Upscale queue and batches: MiddlePanel.jsx, StoryboardApp.jsx           *)

MaxPick == 2        \* slices of the displayed image picked one by one
MaxResults == 2     \* results in the output area when a batch is started

(* JavaScript undefined as an element of the queue *)
UNDEFINED == [undefined |-> TRUE]

(* The options of the model dropdown explored, and those served by         *)
(* handleJimengProcessing (handleUpscaleClick)                             *)
UpscaleModels == {"jimeng-enhance", "nano-banana-fast"}
JimengModels == {"jimeng-enhance", "jimeng-super"}

(* No batch has been started.  attempted, returned and produced record the *)
(* ids of the items of the running batch for which the backend was called, *)
(* for which its call returned, and for which a result was appended.       *)
IdleBatch ==
    [kind |-> "none", pc |-> "idle", queue |-> <<>>, i |-> 0,
     useMock |-> FALSE, attempted |-> <<>>, returned |-> <<>>,
     produced |-> <<>>]

InitUpscale ==
    /\ processingQueue = <<>>
    /\ upscaledResults = <<>>
    /\ isUpscaling = FALSE
    /\ upscaleModel = "jimeng-enhance"
    /\ isJimengProcessing = FALSE
    /\ draggedIndex = -1
    /\ batch = IdleBatch

(* MiddlePanel renders the queue with item.id and item.dataUrl of every    *)
(* item: with an undefined item the render throws and no handler runs.     *)
Rendered ==
    \A k \in 1..Len(processingQueue) : processingQueue[k] # UNDEFINED

(* queue.find(item => item.id === id) !== undefined *)
InQueue(queue, id) == \E k \in 1..Len(queue) : queue[k].id = id

(* AddSlice without the test of the id *)
AddSliceUnchecked(snapshot, prev, slice) == Append(prev, slice)

(* addToProcessing: the test reads the queue of the render (snapshot), the *)
(* update appends to the latest queue (prev)                               *)
AddSlice(snapshot, prev, slice) ==
    IF ~InQueue(snapshot, slice.id) THEN Append(prev, slice) ELSE prev

(* addAllToProcessing: slicedImages.filter(slice => !prev.find(...)) *)
AddAllSlices(prev, slices) ==
    LET P(slice) == ~InQueue(prev, slice.id) IN prev \o SelectSeq(slices, P)

(* removeFromProcessing: prev.filter(item => item.id !== id) *)
RemoveSlice(prev, id) ==
    LET P(item) == item.id # id IN SelectSeq(prev, P)

(* Array.prototype.splice(index, 1) with a 0-based index: the array left,  *)
(* and the first element of the array returned (undefined if index is      *)
(* past the end)                                                           *)
SpliceOut(queue, index) ==
    IF index < Len(queue)
    THEN SubSeq(queue, 1, index) \o SubSeq(queue, index + 2, Len(queue))
    ELSE queue

SpliceItem(queue, index) ==
    IF index < Len(queue) THEN queue[index + 1] ELSE UNDEFINED

(* Array.prototype.splice(index, 0, item): an index past the end inserts   *)
(* at the end                                                              *)
SpliceIn(queue, index, item) ==
    LET at == IF index > Len(queue) THEN Len(queue) ELSE index
    IN  SubSeq(queue, 1, at) \o <<item>> \o SubSeq(queue, at + 1, Len(queue))

(* MiddlePanel addToProcessing(slice): click on the k-th displayed slice *)
addToProcessing(k) ==
    /\ Rendered
    /\ k \in 1..Len(slicedImages)
    /\ processingQueue' = AddSlice(processingQueue, processingQueue,
                                   slicedImages[k])
    /\ UNCHANGED <<upscaledResults, isUpscaling, upscaleModel,
                   isJimengProcessing, draggedIndex, batch>>

(* MiddlePanel addAllToProcessing; the button is rendered with the slices *)
addAllToProcessing ==
    /\ Rendered
    /\ Len(slicedImages) > 0
    /\ processingQueue' = AddAllSlices(processingQueue, slicedImages)
    /\ UNCHANGED <<upscaledResults, isUpscaling, upscaleModel,
                   isJimengProcessing, draggedIndex, batch>>

(* MiddlePanel removeFromProcessing(item.id) of the k-th item of the queue *)
removeFromProcessing(k) ==
    /\ Rendered
    /\ k \in 1..Len(processingQueue)
    /\ processingQueue' = RemoveSlice(processingQueue, processingQueue[k].id)
    /\ UNCHANGED <<upscaledResults, isUpscaling, upscaleModel,
                   isJimengProcessing, draggedIndex, batch>>

(* MiddlePanel handleClearProcessing; the button is rendered with a        *)
(* non-empty queue, confirmed is the answer to window.confirm              *)
handleClearProcessing(confirmed) ==
    /\ Rendered
    /\ Len(processingQueue) > 0
    /\ processingQueue' = IF confirmed THEN <<>> ELSE processingQueue
    /\ UNCHANGED <<upscaledResults, isUpscaling, upscaleModel,
                   isJimengProcessing, draggedIndex, batch>>

(* MiddlePanel handleDragStart(e, index) on a rendered item *)
handleDragStart(index) ==
    /\ Rendered
    /\ index \in 0..(Len(processingQueue) - 1)
    /\ draggedIndex' = index
    /\ UNCHANGED <<processingQueue, upscaledResults, isUpscaling,
                   upscaleModel, isJimengProcessing, batch>>

(* MiddlePanel handleDrop(e, dropIndex) on a rendered item.  Nothing       *)
(* resets draggedIndex when a drag ends without a drop on an item, and a   *)
(* drop can come from a drag that did not start on an item of the queue,   *)
(* so draggedIndex may be the index of an earlier drag.                    *)
handleDrop(dropIndex) ==
    /\ Rendered
    /\ dropIndex \in 0..(Len(processingQueue) - 1)
    /\ draggedIndex # -1
    /\ draggedIndex # dropIndex
    /\ processingQueue' =
           SpliceIn(SpliceOut(processingQueue, draggedIndex), dropIndex,
                    SpliceItem(processingQueue, draggedIndex))
    /\ draggedIndex' = -1
    /\ UNCHANGED <<upscaledResults, isUpscaling, upscaleModel,
                   isJimengProcessing, batch>>

(* The model dropdown of the processing area *)
setUpscaleModel(model) ==
    /\ Rendered
    /\ model # upscaleModel
    /\ upscaleModel' = model
    /\ UNCHANGED <<processingQueue, upscaledResults, isUpscaling,
                   isJimengProcessing, draggedIndex, batch>>

(* StoryboardApp handleClearOutput; confirmed is the answer to             *)
(* window.confirm                                                          *)
handleClearOutput(confirmed) ==
    /\ Rendered
    /\ Len(upscaledResults) > 0
    /\ upscaledResults' = IF confirmed THEN <<>> ELSE upscaledResults
    /\ UNCHANGED <<processingQueue, isUpscaling, upscaleModel,
                   isJimengProcessing, draggedIndex, batch>>

(* const isBusy = isUpscaling || isJimengProcessing *)
isBusy == isUpscaling \/ isJimengProcessing

(* A result that does not take the aspect ratio of its item *)
NewResultSquare(item, kind) ==
    [originalId |-> item.id, aspectRatio |-> <<1, 1>>, by |-> kind]

(* newResult of handleUpscale (originalId) / handleJimengProcessing        *)
(* (sourceId) for an item                                                  *)
NewResult(item, kind) ==
    [originalId |-> item.id, aspectRatio |-> item.aspectRatio, by |-> kind]

(* for (const item of processingQueue) of handleJimengProcessing with the  *)
(* next index i: the backend is called for the item, or the loop is over   *)
(* and finally runs.  The queue is left as it is.                          *)
JimengIterate(b, i) ==
    /\ UNCHANGED <<processingQueue, isUpscaling>>
    /\ IF i <= Len(b.queue)
       THEN /\ batch' = [b EXCEPT !.i = i, !.pc = "backend",
                           !.attempted = Append(b.attempted, b.queue[i].id)]
            /\ UNCHANGED isJimengProcessing
       ELSE /\ batch' = [b EXCEPT !.i = i, !.pc = "finished"]
            /\ isJimengProcessing' = FALSE

(* for (let i = 0; i < queue.length; i++) of handleUpscale with the next   *)
(* index i (1-based here): the 2 s cooldown before every item but the      *)
(* first, or the loop is over: setProcessingQueue([]) and finally.         *)
UpscaleIterate(b, i) ==
    /\ UNCHANGED isJimengProcessing
    /\ IF i <= Len(b.queue)
       THEN /\ batch' = IF i > 1
                        THEN [b EXCEPT !.i = i, !.pc = "cooldown"]
                        ELSE [b EXCEPT !.i = i, !.pc = "backend",
                                !.attempted = Append(b.attempted,
                                                     b.queue[i].id)]
            /\ UNCHANGED <<processingQueue, isUpscaling>>
       ELSE /\ batch' = [b EXCEPT !.i = i, !.pc = "finished"]
            /\ processingQueue' = <<>>
            /\ isUpscaling' = FALSE

(* The loop goes on to the next item *)
NextItem(b) ==
    IF b.kind = "jimeng" THEN JimengIterate(b, b.i + 1)
    ELSE UpscaleIterate(b, b.i + 1)

(* The error of an item leaves the loop: the batch ends where it is *)
ItemFailedEndsBatch(b) ==
    /\ batch' = [b EXCEPT !.pc = "finished"]
    /\ isUpscaling' = FALSE
    /\ isJimengProcessing' = FALSE
    /\ UNCHANGED processingQueue

(* The inner catch block of an item: the error is logged (handleUpscale)   *)
(* or the loop continues (handleJimengProcessing); in both the next item   *)
(* follows.                                                                *)
ItemFailed(b) == NextItem(b)

(* MiddlePanel handleUpscaleClick: the button is disabled when isBusy or   *)
(* when the queue is empty.  It starts handleJimengProcessing for the two  *)
(* jimeng models and handleUpscale otherwise; both run up to the backend   *)
(* call of the first item.  useMock is config.useMock.                     *)
handleUpscaleClick(useMock) ==
    /\ Rendered
    /\ ~isBusy
    /\ Len(processingQueue) > 0
    /\ LET b == [IdleBatch EXCEPT !.queue = processingQueue,
                                  !.useMock = useMock]
       IN  IF upscaleModel \in JimengModels
           THEN /\ isJimengProcessing' = TRUE
                /\ batch' = [b EXCEPT !.kind = "jimeng", !.i = 1,
                               !.pc = "backend",
                               !.attempted = <<processingQueue[1].id>>]
                /\ UNCHANGED isUpscaling
           ELSE /\ isUpscaling' = TRUE
                /\ batch' = [b EXCEPT !.kind = "app", !.i = 1,
                               !.pc = "backend",
                               !.attempted = <<processingQueue[1].id>>]
                /\ UNCHANGED isJimengProcessing
    /\ UNCHANGED <<processingQueue, upscaledResults, upscaleModel,
                   draggedIndex>>

(* What the awaited backend call of an item settles with: a data: URL, an  *)
(* http(s) URL, another string (a blob: URL), or an Error.                 *)
(*   callJimengEnhance / callJimengSuperResolution: image_urls[0], a data  *)
(*     URL, or throw;                                                      *)
(*   mock of handleUpscale: item.dataUrl, a data URL;                      *)
(*   generateSoraImage / generateGrsaiImage: a blob URL, the hosted URL,   *)
(*     inline data, or throw.                                              *)
BackendOutcomes(b) ==
    IF b.kind = "jimeng" THEN {"http", "data", "throws"}
    ELSE IF b.useMock THEN {"data"}
    ELSE {"data", "http", "blob", "throws"}

(* setUpscaledResults(prev => [...prev, newResult]) for the current item   *)
(* of handleUpscale, then the next iteration                               *)
UpscaleResult(b) ==
    /\ upscaledResults' = Append(upscaledResults,
                                 NewResult(b.queue[b.i], b.kind))
    /\ UpscaleIterate([b EXCEPT !.produced =
                           Append(b.produced, b.queue[b.i].id)], b.i + 1)

(* The awaited backend call of the current item settles *)
BackendSettles(outcome) ==
    /\ batch.pc = "backend"
    /\ outcome \in BackendOutcomes(batch)
    /\ IF outcome = "throws"
       THEN /\ ItemFailed(batch)
            /\ UNCHANGED upscaledResults
       ELSE LET b == [batch EXCEPT !.returned =
                          Append(batch.returned, batch.queue[batch.i].id)]
            IN  IF b.kind = "jimeng"
                THEN /\ upscaledResults' =
                            Append(upscaledResults,
                                   NewResult(b.queue[b.i], b.kind))
                     /\ batch' = [b EXCEPT !.pc = "pause", !.produced =
                                     Append(b.produced, b.queue[b.i].id)]
                     /\ UNCHANGED <<processingQueue, isUpscaling,
                                    isJimengProcessing>>
                ELSE IF outcome = "http"
                THEN /\ batch' = [b EXCEPT !.pc = "convert"]
                     /\ UNCHANGED <<processingQueue, upscaledResults,
                                    isUpscaling, isJimengProcessing>>
                ELSE UpscaleResult(b)
    /\ UNCHANGED <<upscaleModel, draggedIndex>>

(* handleUpscale: await urlToBase64(imageUrl) of an http(s) result         *)
(* settles; if it fails the URL itself is the result                       *)
ConvertSettles(ok) ==
    /\ batch.pc = "convert"
    /\ UpscaleResult(batch)
    /\ UNCHANGED <<upscaleModel, draggedIndex>>

(* handleUpscale: the 2 s cooldown is over, the backend is called *)
CooldownElapsed ==
    /\ batch.pc = "cooldown"
    /\ batch' = [batch EXCEPT !.pc = "backend",
                    !.attempted = Append(batch.attempted,
                                         batch.queue[batch.i].id)]
    /\ UNCHANGED <<processingQueue, upscaledResults, isUpscaling,
                   upscaleModel, isJimengProcessing, draggedIndex>>

(* handleJimengProcessing: the 100 ms pause after a result is over *)
PauseElapsed ==
    /\ batch.pc = "pause"
    /\ JimengIterate(batch, batch.i + 1)
    /\ UNCHANGED <<upscaledResults, upscaleModel, draggedIndex>>

(* One step of the running batch *)
BatchStep ==
    \/ \E outcome \in {"data", "http", "blob", "throws"} :
           BackendSettles(outcome)
    \/ \E ok \in BOOLEAN : ConvertSettles(ok)
    \/ CooldownElapsed
    \/ PauseElapsed

-----------------------------------------------------------------------------
(* Video cards and merge: VideoGenerationPanel.jsx                         *)

MaxCards == 2       \* cards in the panel, and generations running at once

GenSlots == 1..MaxCards

(* errorMsg: null, and "生成失败" (VideoGenerationPanel.jsx:629) *)
NoError == "null"
MsgShengChengShiBai == "sheng cheng shi bai"
MsgWeiGuoShenHe == "sheng cheng de shi pin wei guo shen he qing chong shi"

(* A card keeps the fields the handlers write: status, videoUrl, prompt,   *)
(* progress and errorMsg (id and imageUrl are set once, at creation).      *)
(* { ...undefined }: an object none of whose fields is defined             *)
NoCard ==
    [id |-> "undefined", status |-> "undefined", videoUrl |-> NULL,
     prompt |-> "undefined", progress |-> -1, errorMsg |-> "undefined"]

(* handleFileUpload: the card of an uploaded image *)
NewCard ==
    [id |-> "card", status |-> "idle", videoUrl |-> NULL,
     prompt |-> "default", progress |-> 0, errorMsg |-> NoError]

(* useState({ isMerging: false, progress: 0, mergedUrl: null }), also the  *)
(* value updateCard and deleteCard reset mergeState to                     *)
IdleMerge == [isMerging |-> FALSE, progress |-> 0, mergedUrl |-> NULL]

(* No handleGenerateVideo is running in a slot.  A running one keeps the   *)
(* index it was called with and the mergeState.mergedUrl of the render in  *)
(* which it was called: its updateCard is the closure of that render.      *)
(* History: reason is the failure_reason the last call of the slot was     *)
(* rejected with ("none": it has not been rejected).                       *)
IdleGen == [pc |-> "idle", index |-> 0, mergedUrl |-> NULL, reason |-> "none"]

(* No handleMergeVideos is running.  clips is validCards.length and i the  *)
(* loop variable.  Of the video element of the run: src is the index of    *)
(* the clip assigned to video.src (-1: none), handler the loop step whose  *)
(* resolve video.onended and video.onerror hold, plays the clips whose     *)
(* video.play() promise has not settled.  History: loaded lists the clips  *)
(* assigned to video.src, resolvedBy the clip whose event resolved each    *)
(* step, late tells that a settled step's resolve was called again, dirty  *)
(* that updateCard or deleteCard has run since the last merge began,       *)
(* failed that the last call of handleMergeVideos ended in its catch       *)
(* block, with the alert, erred that a clip of the run had an error event  *)
(* or a rejected play().                                                   *)
IdleMergeRun ==
    [pc |-> "idle", clips |-> 0, i |-> 0, dirty |-> FALSE,
     src |-> -1, handler |-> -1, plays |-> {}, loaded |-> <<>>,
     resolvedBy |-> <<>>, late |-> FALSE, failed |-> FALSE, erred |-> FALSE]

InitVideo ==
    /\ cards = <<>>
    /\ mergeState = IdleMerge
    /\ gens = [g \in GenSlots |-> IdleGen]
    /\ merge = IdleMergeRun

(* The panel renders every card with card.id and card.status *)
CardsRendered == \A k \in 1..Len(cards) : cards[k] # UNDEFINED

(* { ...card, ...updates } *)
MergeCard(card, updates) ==
    [f \in DOMAIN card |->
        IF f \in DOMAIN updates THEN updates[f] ELSE card[f]]

(* const newCards = [...prev]; newCards[index] = { ...newCards[index],     *)
(* ...updates } with a 0-based index: past the end the array grows, the    *)
(* elements in between are empty                                           *)
WriteAt(prev, index, updates) ==
    LET n == IF index < Len(prev) THEN Len(prev) ELSE index + 1
        old == IF index < Len(prev) /\ prev[index + 1] # UNDEFINED
               THEN prev[index + 1] ELSE NoCard
    IN  [k \in 1..n |->
            IF k = index + 1 THEN MergeCard(old, updates)
            ELSE IF k <= Len(prev) THEN prev[k] ELSE UNDEFINED]

(* prev.filter((_, i) => i !== index) *)
DeleteAt(prev, index) ==
    SubSeq(prev, 1, index) \o SubSeq(prev, index + 2, Len(prev))

(* cards.filter(c => c.status === 'success' && c.videoUrl) *)
generatedVideos(cs) ==
    LET P(c) == c.status = "success" /\ c.videoUrl # NULL
    IN  SelectSeq(cs, P)

(* Math.round(((i + 1) / n) * 100) *)
MergeProgress(i, n) == (200 * (i + 1) + n) \div (2 * n)

(* updateCard(index, updates) as the closure of a render whose             *)
(* mergeState.mergedUrl was seenMergedUrl                                  *)
updateCard(index, updates, seenMergedUrl) ==
    /\ cards' = WriteAt(cards, index, updates)
    /\ mergeState' = IF seenMergedUrl # NULL THEN IdleMerge ELSE mergeState
    /\ merge' = [merge EXCEPT !.dirty = TRUE]

(* handleFileUpload, reader.onload: a card is appended *)
handleFileUpload ==
    /\ CardsRendered
    /\ Len(cards) < MaxCards
    /\ cards' = Append(cards, NewCard)
    /\ UNCHANGED <<mergeState, gens, merge>>

(* The textarea of the card at index: onUpdatePrompt(index, { prompt }) *)
updatePrompt(index) ==
    /\ CardsRendered
    /\ index \in 0..(Len(cards) - 1)
    /\ cards[index + 1].prompt # "edited"
    /\ updateCard(index, [prompt |-> "edited"], mergeState.mergedUrl)
    /\ UNCHANGED gens

(* deleteCard(index) from the X button of the card at index *)
deleteCard(index) ==
    /\ CardsRendered
    /\ index \in 0..(Len(cards) - 1)
    /\ cards' = DeleteAt(cards, index)
    /\ mergeState' = IF mergeState.mergedUrl # NULL THEN IdleMerge
                     ELSE mergeState
    /\ merge' = [merge EXCEPT !.dirty = TRUE]
    /\ UNCHANGED gens

(* handleGenerateVideo(index) from the button of the card at index         *)
(* (Generate, Regenerate, retry; disabled while the card is loading), up   *)
(* to the await of generateSoraVideo; apiKey is config.apiKey.  The image  *)
(* of the card is a data URL (uploaded with readAsDataURL).                *)
handleGenerateVideo(index, apiKey) ==
    /\ CardsRendered
    /\ index \in 0..(Len(cards) - 1)
    /\ cards[index + 1].status # "loading"
    /\ \E g \in GenSlots :
         /\ gens[g].pc = "idle"
         /\ \A h \in 1..(g - 1) : gens[h].pc # "idle"
         /\ IF ~apiKey
            THEN UNCHANGED <<cards, mergeState, gens, merge>>
            ELSE /\ updateCard(index,
                               [status |-> "loading", progress |-> 0,
                                errorMsg |-> NoError],
                               mergeState.mergedUrl)
                 /\ gens' = [gens EXCEPT ![g] =
                               [pc |-> "video", index |-> index,
                                mergedUrl |-> mergeState.mergedUrl,
                                reason |-> "none"]]

(* The progress callback of generateSoraVideo: updateCard(index,           *)
(* { progress }) with a progress reported by a poll                        *)
ProgressReported(g) ==
    /\ gens[g].pc = "video"
    /\ updateCard(gens[g].index, [progress |-> 50], gens[g].mergedUrl)
    /\ UNCHANGED gens

(* What generateSoraVideo settles with: "none" is a video URL, the others *)
(* the failure_reason of new Error(`Video Failed: ${failure_reason}`)      *)
VideoReasons == {"none", "output_moderation", "internal_error"}

(* The catch block of handleGenerateVideo: the errorMsg of the card *)
VideoErrorMsg(reason) == MsgShengChengShiBai

(* await generateSoraVideo(...) settles *)
VideoSettles(g, reason) ==
    /\ gens[g].pc = "video"
    /\ reason \in VideoReasons
    /\ updateCard(gens[g].index,
                  IF reason = "none"
                  THEN [status |-> "success", videoUrl |-> Url("video", 0),
                        progress |-> 100]
                  ELSE [status |-> "error", progress |-> 0,
                        errorMsg |-> VideoErrorMsg(reason)],
                  gens[g].mergedUrl)
    /\ gens' = [gens EXCEPT ![g] = [IdleGen EXCEPT !.reason = reason]]

(* The executor of the promise of loop step i: video.src, the handlers     *)
(* and video.play()                                                        *)
LoadClip(m, i) ==
    [m EXCEPT !.src = i, !.handler = i, !.plays = @ \cup {i},
              !.loaded = Append(@, i)]

(* A catch block that leaves the merge running *)
CatchMergeStillMerging ==
    [isMerging |-> TRUE, progress |-> 0, mergedUrl |-> NULL]

(* The catch block of handleMergeVideos:                                   *)
(* setMergeState({ isMerging: false, progress: 0, mergedUrl: null })       *)
CatchMerge == [isMerging |-> FALSE, progress |-> 0, mergedUrl |-> NULL]

(* handleMergeVideos from the Merge Videos button (rendered while there is *)
(* no mergedUrl, disabled with fewer than two generated videos or while    *)
(* merging), up to the await of the first clip; recorderOk tells whether   *)
(* the MediaRecorder could be set up, else the catch block runs.           *)
(* One run of handleMergeVideos is followed at a time.                     *)
handleMergeVideos(recorderOk) ==
    /\ CardsRendered
    /\ merge.pc = "idle"
    /\ mergeState.mergedUrl = NULL
    /\ ~mergeState.isMerging
    /\ Len(generatedVideos(cards)) >= 2
    /\ IF recorderOk
       THEN /\ mergeState' = [isMerging |-> TRUE, progress |-> 0,
                              mergedUrl |-> NULL]
            /\ merge' = LoadClip([IdleMergeRun EXCEPT
                                     !.pc = "clip",
                                     !.clips = Len(generatedVideos(cards))],
                                 0)
       ELSE /\ mergeState' = CatchMerge
            /\ merge' = [merge EXCEPT !.failed = TRUE]
    /\ UNCHANGED <<cards, gens>>

(* i < validCards.length *)
MoreClips(i, n) == i < n

(* The await of step merge.i has resolved, by an event of clip: the        *)
(* progress is set, then the next clip is loaded and played or             *)
(* mediaRecorder.stop() is called.  m is the run after the event.          *)
MergeClipEnds(m, clip) ==
    /\ mergeState' = [mergeState EXCEPT !.progress =
                         MergeProgress(m.i, m.clips)]
    /\ LET r == [m EXCEPT !.i = m.i + 1,
                          !.resolvedBy = Append(@, clip)]
       IN  merge' = IF MoreClips(m.i + 1, m.clips)
                    THEN LoadClip(r, m.i + 1)
                    ELSE [r EXCEPT !.pc = "stopping"]

(* resolve() of loop step `step` is called by an event of clip: it         *)
(* resolves the step if the step is the one awaited, and does nothing if   *)
(* the step has resolved before.                                           *)
StepResolves(m, step, clip) ==
    IF m.pc = "clip" /\ m.i = step
    THEN MergeClipEnds(m, clip)
    ELSE /\ merge' = [m EXCEPT !.late = TRUE]
         /\ UNCHANGED mergeState

(* A playback error that is thrown to the catch block of the merge *)
PlaybackErrorThrows(m, step, clip) ==
    /\ merge' = [m EXCEPT !.pc = "idle", !.failed = TRUE, !.erred = TRUE]
    /\ mergeState' = CatchMerge

(* video.onerror = resolve and video.play().catch(resolve): a playback     *)
(* error of clip calls the resolve of loop step `step`                     *)
PlaybackError(m, step, clip) ==
    StepResolves([m EXCEPT !.erred = TRUE], step, clip)

(* video.onended / video.onerror: the clip in video.src has ended or       *)
(* failed; the handlers of the element are those of the step that set them *)
MediaEnds(kind) ==
    /\ merge.pc = "clip"
    /\ kind \in {"ended", "error"}
    /\ IF kind = "error"
       THEN PlaybackError(merge, merge.handler, merge.src)
       ELSE StepResolves(merge, merge.handler, merge.src)
    /\ UNCHANGED <<cards, gens>>

PlayResolvesAwaited(clip) == merge.i

(* video.play().catch(resolve): resolve is the one of the executor that    *)
(* called play(), the step of the clip                                     *)
PlayResolves(clip) == clip

(* The promise of the video.play() of clip settles: fulfilled when the     *)
(* playback has started, rejected when it cannot start or when a later     *)
(* video.src interrupts it                                                 *)
PlaySettles(clip, rejected) ==
    /\ clip \in merge.plays
    /\ LET m == [merge EXCEPT !.plays = @ \ {clip}]
       IN  IF rejected
           THEN PlaybackError(m, PlayResolves(clip), clip)
           ELSE merge' = m /\ UNCHANGED mergeState
    /\ UNCHANGED <<cards, gens>>

FinishedMergeStillMerging(url) ==
    [isMerging |-> TRUE, progress |-> 100, mergedUrl |-> url]

(* { isMerging: false, progress: 100, mergedUrl } *)
FinishedMerge(url) ==
    [isMerging |-> FALSE, progress |-> 100, mergedUrl |-> url]

(* mediaRecorder.onstop *)
MergeStops ==
    /\ merge.pc = "stopping"
    /\ mergeState' = FinishedMerge(Url("merged", 0))
    /\ merge' = [merge EXCEPT !.pc = "idle"]
    /\ UNCHANGED <<cards, gens>>

-----------------------------------------------------------------------------
(* The store of the cards: dbHelper and the effects of                     *)
(* VideoGenerationPanel.jsx                                                *)

MaxSaves == 2       \* calls of saveAll whose transaction has not ended

(* The panel is mounted and loadData has not settled.  store is the        *)
(* content of the object store (the list last written), loaded is          *)
(* isDbLoaded, timer tells that the timeout of the save effect is pending, *)
(* saves lists the card lists of the calls of saveAll whose transaction    *)
(* has not ended, in the order of the calls.                               *)
ClosedDb(store) ==
    [store |-> store, loaded |-> FALSE, timer |-> FALSE, saves |-> <<>>]

(* store.put(card) with keyPath 'id': a value without an id is refused *)
Storable(card) == card # UNDEFINED /\ card.id # "undefined"

(* A card as saveAll stores it while its generation is running: the page   *)
(* was closed or reloaded before the generation settled                    *)
SavedLoadingCard == [NewCard EXCEPT !.status = "loading"]

(* The save effect after a render with the card list cs (dependencies      *)
(* [cards, isDbLoaded]): the cleanup clears the pending timeout, and a new *)
(* timeout is set if isDbLoaded.  A render that throws unmounts the panel. *)
SaveEffect(d, cs) ==
    [d EXCEPT !.timer = d.loaded
                        /\ \A k \in 1..Len(cs) : cs[k] # UNDEFINED]

(* loadData settles: getAll has returned the list of the store or has      *)
(* failed; setCards if the list is not empty, setIsDbLoaded(true) in       *)
(* finally, then the save effect.                                          *)
LoadSettles(ok) ==
    /\ ~db.loaded
    /\ cards' = IF ok /\ Len(db.store) > 0 THEN db.store ELSE cards
    /\ db' = SaveEffect([db EXCEPT !.loaded = TRUE], cards')
    /\ UNCHANGED <<mergeState, gens, merge>>

(* The timeout of the save effect fires after 1 s: saveAll(cards) is       *)
(* called with the cards of the render that set it, the latest.            *)
TimerFires ==
    /\ db.timer
    /\ Len(db.saves) < MaxSaves
    /\ db' = [db EXCEPT !.timer = FALSE, !.saves = Append(@, cards)]
    /\ UNCHANGED videoVars

(* The readwrite transaction of the oldest call of saveAll ends: clear and *)
(* a put for every card; a put that throws aborts the transaction, which   *)
(* leaves the store as it was.                                             *)
SaveEnds ==
    /\ Len(db.saves) > 0
    /\ LET written == Head(db.saves) IN
       db' = [db EXCEPT !.saves = Tail(@),
                        !.store = IF \A k \in 1..Len(written) :
                                        Storable(written[k])
                                  THEN written ELSE @]
    /\ UNCHANGED videoVars

(* A handler of the panel that sets the cards, followed by the save effect *)
(* of the render it causes                                                 *)
CardsChange(handler) ==
    /\ handler
    /\ db' = SaveEffect(db, cards')

-----------------------------------------------------------------------------
(* Functions of their arguments: performSlicing (StoryboardApp.jsx) and    *)
(* calculateImageDimensions (utils)                                        *)

MaxSide == 6        \* largest image side and shot side drawn, next to
                    \* 1080 and 1920

NoArgs == [fn |-> "none"]
NoResult == [fn |-> "none"]

(* The rectangle of the image that drawImage copies into the slice of cell *)
(* (y, x): offset (x * pieceWidth, y * pieceHeight), size pieceWidth by    *)
(* pieceHeight, with pieceWidth = img.width / cols and pieceHeight =       *)
(* img.height / rows.  The quotients need not be integers: horizontal      *)
(* lengths are given in units of 1/cols pixel and vertical ones in units   *)
(* of 1/rows pixel, in which the image is cols * W wide and rows * H high. *)
SliceRect(W, H, mode, y, x) ==
    [left |-> x * W, top |-> y * H, width |-> W, height |-> H]

(* performSlicing(imageUrl, mode, shotSize) once img.onload has run, for   *)
(* an image of W by H pixels: the slices and the rectangle of each         *)
SlicingResult(imageUrl, W, H, mode) ==
    LET newSlices == performSlicing(imageUrl, mode)
    IN  [fn |-> "performSlicing",
         rows |-> GridRows(mode),
         cols |-> GridCols(mode),
         slices |-> newSlices,
         rects |-> [k \in 1..Len(newSlices) |->
                      SliceRect(W, H, mode, newSlices[k].y, newSlices[k].x)]]

(* let longEdge = 1920; then by params.quality *)
LongEdge(quality) ==
    IF quality = "4k" THEN 3840
    ELSE IF quality = "2k" THEN 1920
    ELSE IF quality = "1k" THEN 1024
    ELSE 1920

(* Math.round(num / den) for positive integers num and den *)
MathRound(num, den) == (2 * num + den) \div (2 * den)

Unaligned(num, den) == num \div den

(* Math.round((num / den) / 8) * 8 *)
AlignTo8(num, den) == MathRound(num, 8 * den) * 8

(* calculateImageDimensions(params), with the quotients taken exactly *)
calculateImageDimensions(params) ==
    LET cols == IF params.grid = "1x1" THEN 1
                ELSE IF params.grid = "2x2" THEN 2 ELSE 3
        rows == cols
        longEdge == LongEdge(params.quality)
        inputW == IF params.shotSize.w = 0 THEN 1920 ELSE params.shotSize.w
        inputH == IF params.shotSize.h = 0 THEN 1080 ELSE params.shotSize.h
        finalW == IF inputW >= inputH THEN AlignTo8(longEdge, 1)
                  ELSE AlignTo8(longEdge * inputW, inputH)
        finalH == IF inputW >= inputH THEN AlignTo8(longEdge * inputH, inputW)
                  ELSE AlignTo8(longEdge, 1)
    IN  [fn |-> "calculateImageDimensions",
         cols |-> cols, rows |-> rows,
         shotW |-> finalW \div cols, shotH |-> finalH \div rows,
         rawTotalW |-> finalW, rawTotalH |-> finalH,
         finalW |-> finalW, finalH |-> finalH]

Sides == 1..MaxSide
ShotSides == Sides \cup {1080, 1920}

(* The calls followed: performSlicing on an image of any size in any grid  *)
(* spec, calculateImageDimensions on any quality, shot size and grid       *)
(* The candidates of a response of the streamed-or-buffered branch of      *)
(* generateGrsaiImage, as far as the extraction loop looks at them:        *)
(* finishReason, whether a part of content.parts has inlineData, and what  *)
(* content.parts[0].text holds: nothing, text without a URL, a Markdown    *)
(* image link, a bare http(s) URL, or a data:image URL.                    *)
MaxCandidates == 3      \* candidates of a response

TextKinds == {"none", "plain", "markdown", "url", "dataUrl"}

Candidates ==
    [finishReason : {"STOP", "SAFETY"}, inline : BOOLEAN, text : TextKinds]

CandidateLists ==
    UNION {[1..n -> Candidates] : n \in 0..MaxCandidates}

(* No candidate is taken as filtered *)
SafetyFilteredNever(candidate) == FALSE

(* if (candidate.finishReason === 'SAFETY') continue *)
SafetyFiltered(candidate) == candidate.finishReason = "SAFETY"

(* What the body of the loop returns for a candidate: the inline data      *)
(* first, then the Markdown link, the URL or the data URL of the text;     *)
(* "none" if it returns nothing                                            *)
ImageOf(candidate) ==
    IF candidate.inline THEN "inline"
    ELSE IF candidate.text \in {"markdown", "url", "dataUrl"}
    THEN candidate.text
    ELSE "none"

(* for (const candidate of allCandidates) from the k-th candidate on, and  *)
(* the throw after the loop                                                *)
RECURSIVE ExtractFrom(_, _)
ExtractFrom(allCandidates, k) ==
    IF k > Len(allCandidates)
    THEN [fn |-> "extractImage", threw |-> MsgNoImage, image |-> "none",
          of |-> 0]
    ELSE IF SafetyFiltered(allCandidates[k])
    THEN ExtractFrom(allCandidates, k + 1)
    ELSE IF ImageOf(allCandidates[k]) # "none"
    THEN [fn |-> "extractImage", threw |-> "",
          image |-> ImageOf(allCandidates[k]), of |-> k]
    ELSE ExtractFrom(allCandidates, k + 1)

(* The extraction of the image from the parsed candidates (api.js:534-569) *)
extractImage(allCandidates) ==
    IF Len(allCandidates) = 0
    THEN [fn |-> "extractImage", threw |-> MsgCandidatesEmpty,
          image |-> "none", of |-> 0]
    ELSE ExtractFrom(allCandidates, 1)

FnCalls ==
    [fn : {"performSlicing"}, mode : {"1x1", "2x2", "3x3"},
     W : Sides, H : Sides]
    \cup
    [fn : {"extractImage"}, allCandidates : CandidateLists]
    \cup
    [fn : {"calculateImageDimensions"},
     params : [grid : {"1x1", "2x2", "3x3"}, quality : {"1k", "2k", "4k"},
               shotSize : [w : ShotSides, h : ShotSides]]]

performSlicingReturns ==
    /\ args.fn = "performSlicing"
    /\ result = NoResult
    /\ result' = SlicingResult(Url("remote", 1), args.W, args.H, args.mode)
    /\ UNCHANGED args

calculateImageDimensionsReturns ==
    /\ args.fn = "calculateImageDimensions"
    /\ result = NoResult
    /\ result' = calculateImageDimensions(args.params)
    /\ UNCHANGED args

extractImageReturns ==
    /\ args.fn = "extractImage"
    /\ result = NoResult
    /\ result' = extractImage(args.allCandidates)
    /\ UNCHANGED args

-----------------------------------------------------------------------------
(* LeftPanel.jsx: the Generate button, with the clock in milliseconds *)

DebounceMs == 1000      \* setTimeout(() => setIsSubmitting(false), 1000)
MaxMs == 2002           \* the clock values explored

(* The models of the selector that matter to handleGenerateClick *)
ClickModels == {"nano-banana-pro", "jimeng-super-res"}

(* How much time passes between two steps: not yet the debounce, or the    *)
(* debounce                                                                *)
Delays == {DebounceMs - 1, DebounceMs}

(* ms is Date.now(); timers holds the instants at which the pending        *)
(* setIsSubmitting(false) timeouts are due, oldest first; local is         *)
(* useState localProcessing.                                               *)
IdleClick == [ms |-> 0, timers |-> <<>>, local |-> FALSE]

(* handleGenerate as called from the button at clock value click.ms: the   *)
(* validations, then the new task at the head of the list.  The run of     *)
(* processGenerationTask it starts ends in ProcessFails or stays pending.  *)
onGenerate(promptEmpty, useMock, configOk, model) ==
    IF promptEmpty
    THEN /\ errorModal' = ShownModal("Empty Prompt")
         /\ UNCHANGED tasks
    ELSE IF ~useMock /\ ~configOk
    THEN /\ errorModal' = ShownModal("Config Missing")
         /\ UNCHANGED tasks
    ELSE /\ Len(tasks) < MaxTasks
         /\ tasks' = <<NewTask(click.ms, gridMode, model, FALSE)>>
                        \o tasks
         /\ UNCHANGED errorModal

(* LeftPanel handleGenerateClick.  The button is disabled while isBusy     *)
(* (isSubmitting || localProcessing).  Every click that passes the test    *)
(* starts a timeout; the super-resolution branch also clears isSubmitting  *)
(* itself: at once without an asset, else when its request has ended.      *)
handleGenerateClick(promptEmpty, useMock, configOk, model, hasAssets) ==
    /\ ~isSubmitting
    /\ ~click.local
    /\ Len(click.timers) < MaxTasks + 1
    /\ IF model = "jimeng-super-res"
       THEN /\ isSubmitting' = hasAssets
            /\ click' = [click EXCEPT
                             !.timers = Append(@, click.ms + DebounceMs),
                             !.local = hasAssets]
            /\ UNCHANGED <<tasks, errorModal>>
       ELSE /\ isSubmitting' = TRUE
            /\ click' = [click EXCEPT
                             !.timers = Append(@, click.ms + DebounceMs)]
            /\ onGenerate(promptEmpty, useMock, configOk, model)
    /\ UNCHANGED <<proc, currentTaskId, generatedImage, slicedImages,
                   gridMode, now>>

(* The finally block of the super-resolution branch *)
LocalProcessingEnds ==
    /\ click.local
    /\ click' = [click EXCEPT !.local = FALSE]
    /\ isSubmitting' = FALSE
    /\ UNCHANGED <<tasks, proc, currentTaskId, generatedImage, slicedImages,
                   gridMode, errorModal, now>>

(* The oldest timeout is due and runs: setIsSubmitting(false) *)
SubmitTimerFires ==
    /\ click.timers # <<>>
    /\ Head(click.timers) <= click.ms
    /\ click' = [click EXCEPT !.timers = Tail(@)]
    /\ isSubmitting' = FALSE
    /\ UNCHANGED <<tasks, proc, currentTaskId, generatedImage, slicedImages,
                   gridMode, errorModal, now>>

(* The clock advances *)
TimePasses(d) ==
    /\ click.ms + d <= MaxMs
    /\ click' = [click EXCEPT !.ms = @ + d]
    /\ UNCHANGED taskVars

(* The catch block of the processGenerationTask run of the task with this  *)
(* id: setTasks(prev => prev.map(... status: 'error' ...))                 *)
ProcessFails(id) ==
    /\ \E i \in 1..Len(tasks) : tasks[i].id = id /\ tasks[i].status = "loading"
    /\ tasks' = MarkError(tasks, id)
    /\ UNCHANGED <<proc, currentTaskId, generatedImage, slicedImages,
                   gridMode, errorModal, now, isSubmitting, click>>

-----------------------------------------------------------------------------
(* VideoGenerationPanel.jsx: the reorder of the cards and the preview      *)

(* useState(null) of draggedCardIndex (-1 = null) and                      *)
(* useState({ isPlaying: false, currentIndex: 0 }) of synthesisState;      *)
(* dragging: a drag begun on the handle of a card is under way.            *)
(* History: at[g] is the 0-based position in the list of the card the      *)
(* running generation g was started for, -1 once the card is deleted.      *)
IdlePanel ==
    [draggedCardIndex |-> -1, dragging |-> FALSE,
     synthesisState |-> [isPlaying |-> FALSE, currentIndex |-> 0],
     at |-> [g \in GenSlots |-> -1]]

(* const item = newCards.splice(from, 1)[0]; newCards.splice(to, 0, item) *)
MoveCard(prev, from, to) ==
    LET rest == DeleteAt(prev, from)
    IN  SubSeq(rest, 1, to) \o <<prev[from + 1]>>
            \o SubSeq(rest, to + 1, Len(rest))

(* Where the card at position p is after MoveCard(prev, from, to) *)
MovedTo(p, from, to) ==
    LET q == IF p > from THEN p - 1 ELSE p
    IN  IF p = from THEN to ELSE IF q >= to THEN q + 1 ELSE q

(* Where the card at position p is after DeleteAt(prev, index) *)
ShiftedTo(p, index) ==
    IF p = index THEN -1 ELSE IF p > index THEN p - 1 ELSE p

(* handleDragStart(e, index) of the panel, from the handle of the card at  *)
(* index                                                                   *)
handleCardDragStart(index) ==
    /\ CardsRendered
    /\ index \in 0..(Len(cards) - 1)
    /\ ~panel.dragging
    /\ panel' = [panel EXCEPT !.draggedCardIndex = index, !.dragging = TRUE]
    /\ UNCHANGED videoVars

(* handleDragOver(e, index): the dragged card is over the card at index *)
handleDragOver(index) ==
    /\ CardsRendered
    /\ index \in 0..(Len(cards) - 1)
    /\ panel.dragging
    /\ panel.draggedCardIndex \notin {-1, index}
    /\ cards' = MoveCard(cards, panel.draggedCardIndex, index)
    /\ panel' = [panel EXCEPT
                    !.draggedCardIndex = index,
                    !.at = [g \in GenSlots |->
                               IF panel.at[g] = -1 THEN -1
                               ELSE MovedTo(panel.at[g],
                                            panel.draggedCardIndex, index)]]
    /\ UNCHANGED <<mergeState, gens, merge>>

(* The drag ends (drop or cancel): no handler, draggedCardIndex stays *)
DragEnds ==
    /\ panel.dragging
    /\ panel' = [panel EXCEPT !.dragging = FALSE]
    /\ UNCHANGED videoVars

(* The play button of the preview: rendered while there is no mergedUrl,   *)
(* disabled with generatedVideos.length === 0                              *)
togglePlay ==
    /\ CardsRendered
    /\ ~panel.dragging
    /\ mergeState.mergedUrl = NULL
    /\ Len(generatedVideos(cards)) # 0
    /\ panel' = [panel EXCEPT !.synthesisState.isPlaying = ~@]
    /\ UNCHANGED videoVars

(* playNext as onEnded of the preview video, which is rendered while       *)
(* there is no mergedUrl and a generated video, has a src when             *)
(* generatedVideos[currentIndex] is defined and plays with isPlaying       *)
playNext ==
    /\ CardsRendered
    /\ mergeState.mergedUrl = NULL
    /\ panel.synthesisState.isPlaying
    /\ panel.synthesisState.currentIndex < Len(generatedVideos(cards))
    /\ panel' = [panel EXCEPT !.synthesisState =
                    IF @.currentIndex < Len(generatedVideos(cards)) - 1
                    THEN [@ EXCEPT !.currentIndex = @ + 1]
                    ELSE [@ EXCEPT !.isPlaying = FALSE, !.currentIndex = 0]]
    /\ UNCHANGED videoVars

(* The actions of the cards with the history of the panel; the buttons    *)
(* are not clicked during a drag                                           *)
TrackUpload ==
    /\ ~panel.dragging
    /\ handleFileUpload
    /\ UNCHANGED panel

TrackDelete(index) ==
    /\ ~panel.dragging
    /\ deleteCard(index)
    /\ panel' = [panel EXCEPT !.at = [g \in GenSlots |->
                                         ShiftedTo(panel.at[g], index)]]

TrackGenerate(index) ==
    /\ ~panel.dragging
    /\ handleGenerateVideo(index, TRUE)
    /\ panel' = [panel EXCEPT !.at = [g \in GenSlots |->
                     IF gens[g].pc = "idle" /\ gens'[g].pc = "video"
                     THEN index ELSE panel.at[g]]]

TrackSettles(g, reason) ==
    /\ VideoSettles(g, reason)
    /\ panel' = [panel EXCEPT !.at[g] = -1]

-----------------------------------------------------------------------------
(* Specifications *)

InitComponents ==
    /\ InitTasks
    /\ call = IdleCall
    /\ InitUpscale
    /\ InitVideo
    /\ db = ClosedDb(<<>>)
    /\ click = IdleClick
    /\ panel = IdlePanel

Init ==
    /\ InitComponents
    /\ args = NoArgs
    /\ result = NoResult

(* The orchestrator with up to MaxTasks tasks in flight *)
Next ==
    \/ \E promptEmpty, useMock, configOk \in BOOLEAN, model \in Models :
           handleGenerate(promptEmpty, useMock, configOk, model, FALSE)
           /\ UNCHANGED exceptTasks
    \/ DebounceElapsed /\ UNCHANGED exceptTasks
    \/ \E t \in TaskIds : MockSettles(t) /\ UNCHANGED exceptTasks
    \/ \E t \in TaskIds, o \in RemoteOutcomes("nano-banana-pro") :
           RemoteSettles(t, o) /\ UNCHANGED exceptTasks
    \/ \E t \in TaskIds, ok \in BOOLEAN :
           RefetchSettles(t, ok) /\ UNCHANGED exceptTasks
    \/ \E t \in TaskIds, loaded \in BOOLEAN :
           SlicingSettles(t, loaded) /\ UNCHANGED exceptTasks
    \/ \E i \in 1..MaxTasks : handleTaskSelect(i) /\ UNCHANGED exceptTasks
    \/ \E i \in 1..MaxTasks : handleDeleteTask(i) /\ UNCHANGED exceptTasks
    \/ closeErrorModal /\ UNCHANGED exceptTasks
    \/ \E mode \in GridModes : setGridMode(mode) /\ UNCHANGED exceptTasks

Spec == Init /\ [][Next]_vars

(* One task (or one video job) with its remote call followed step by step *)
NextCall ==
    \/ \E useMock, assets \in BOOLEAN, model \in CallModels :
           submitCallTask(useMock, model, assets) /\ UNCHANGED exceptCall
    \/ \E configOk \in BOOLEAN :
           startVideoCall(configOk) /\ UNCHANGED exceptCall
    \/ DebounceElapsed /\ UNCHANGED exceptTasks
    \/ \E ok \in BOOLEAN : AssetsSettle(CallTask, ok) /\ UNCHANGED exceptTasks
    \/ MockSettles(CallTask) /\ UNCHANGED exceptTasks
    \/ CallBegin /\ UNCHANGED exceptCall
    \/ \E resp \in SubmitResponses :
           SubmitSettles(resp) /\ UNCHANGED exceptCall
    \/ SleepElapsed /\ UNCHANGED exceptCall
    \/ \E resp \in PollResponses : PollSettles(resp) /\ UNCHANGED exceptCall
    \/ \E outcome \in RefetchOutcomes :
           CallRefetchSettles(outcome) /\ UNCHANGED exceptCall
    \/ RetryDelayElapsed /\ UNCHANGED exceptCall
    \/ \E resp \in StreamResponses :
           StreamSettles(resp) /\ UNCHANGED exceptCall
    \/ \E loaded \in BOOLEAN :
           SlicingSettles(CallTask, loaded) /\ UNCHANGED exceptTasks
    \/ abortCall /\ UNCHANGED exceptCall
    \/ closeErrorModal /\ UNCHANGED exceptTasks

SpecCall == Init /\ [][NextCall]_vars

(* Two tasks at once: the call of the first is followed step by step and   *)
(* its signal can be raised, the second is processed beside it.  The first *)
(* poll of the followed call is final; every await of the second task      *)
(* settles in the end.                                                     *)
NextCancel ==
    \/ submitCallTask(FALSE, "sora-image", FALSE) /\ UNCHANGED exceptCall
    \/ DebounceElapsed /\ UNCHANGED exceptTasks
    \/ \E useMock \in BOOLEAN :
           submitOtherTask(useMock, "nano-banana-pro") /\ UNCHANGED exceptCall
    \/ CallBegin /\ UNCHANGED exceptCall
    \/ \E resp \in SubmitResponses :
           SubmitSettles(resp) /\ UNCHANGED exceptCall
    \/ SleepElapsed /\ UNCHANGED exceptCall
    \/ \E resp \in PollResponses \ {"notok", "running"} :
           PollSettles(resp) /\ UNCHANGED exceptCall
    \/ \E outcome \in RefetchOutcomes :
           CallRefetchSettles(outcome) /\ UNCHANGED exceptCall
    \/ \E loaded \in BOOLEAN :
           SlicingSettles(CallTask, loaded) /\ UNCHANGED exceptTasks
    \/ abortCall /\ UNCHANGED exceptCall
    \/ MockSettles(OtherTask) /\ UNCHANGED exceptTasks
    \/ \E o \in RemoteOutcomes("nano-banana-pro") :
           OtherRemoteSettles(o) /\ UNCHANGED exceptCall
    \/ \E ok \in BOOLEAN :
           RefetchSettles(OtherTask, ok) /\ UNCHANGED exceptTasks
    \/ \E loaded \in BOOLEAN :
           SlicingSettles(OtherTask, loaded) /\ UNCHANGED exceptTasks

SpecCancel ==
    /\ Init
    /\ [][NextCancel]_vars
    /\ WF_vars(OtherStep /\ UNCHANGED exceptCall)

(* The calls and the click on GENERATE with and without a complete config *)
NextConfig ==
    \/ \E model \in CallModels :
           handleGenerateUnconfigured(model) /\ UNCHANGED exceptCall
    \/ DebounceElapsed /\ UNCHANGED exceptTasks
    \/ closeErrorModal /\ UNCHANGED exceptTasks
    \/ \E configOk \in BOOLEAN :
           startVideoCall(configOk) /\ UNCHANGED exceptCall
    \/ \E model \in CallModels, configOk \in BOOLEAN :
           startUpscaleCall(model, configOk) /\ UNCHANGED exceptCall
    \/ CallBegin /\ UNCHANGED exceptCall
    \/ \E resp \in SubmitResponses :
           SubmitSettles(resp) /\ UNCHANGED exceptCall
    \/ SleepElapsed /\ UNCHANGED exceptCall
    \/ \E resp \in PollResponses : PollSettles(resp) /\ UNCHANGED exceptCall
    \/ \E outcome \in RefetchOutcomes :
           CallRefetchSettles(outcome) /\ UNCHANGED exceptCall
    \/ RetryDelayElapsed /\ UNCHANGED exceptCall
    \/ \E resp \in StreamResponses :
           StreamSettles(resp) /\ UNCHANGED exceptCall

SpecConfig == Init /\ [][NextConfig]_vars

(* A mock task in 2x2 mode is generated and displayed: its four slices are *)
(* the slices the queue is filled from.                                    *)
DisplaySlices ==
    \/ tasks = <<>> /\ setGridMode("2x2") /\ UNCHANGED exceptTasks
    \/ /\ gridMode = "2x2"
       /\ now = 1
       /\ handleGenerate(FALSE, TRUE, TRUE, "nano-banana-pro", FALSE)
       /\ UNCHANGED exceptTasks
    \/ MockSettles(1) /\ UNCHANGED exceptTasks
    \/ SlicingSettles(1, TRUE) /\ UNCHANGED exceptTasks

(* The processing queue under every handler that writes it; the backend of *)
(* the batches is unreachable, so that no result is produced.              *)
NextQueue ==
    \/ DisplaySlices
    \/ \E k \in 1..Len(slicedImages) :
           addToProcessing(k) /\ UNCHANGED <<taskVars, exceptUp>>
    \/ addAllToProcessing /\ UNCHANGED <<taskVars, exceptUp>>
    \/ \E k \in 1..Len(processingQueue) :
           removeFromProcessing(k) /\ UNCHANGED <<taskVars, exceptUp>>
    \/ \E confirmed \in BOOLEAN :
           handleClearProcessing(confirmed) /\ UNCHANGED <<taskVars, exceptUp>>
    \/ \E index \in 0..(Len(processingQueue) - 1) :
           handleDragStart(index) /\ UNCHANGED <<taskVars, exceptUp>>
    \/ \E dropIndex \in 0..(Len(processingQueue) - 1) :
           handleDrop(dropIndex) /\ UNCHANGED <<taskVars, exceptUp>>
    \/ setUpscaleModel("nano-banana-fast") /\ UNCHANGED <<taskVars, exceptUp>>
    \/ handleUpscaleClick(FALSE) /\ UNCHANGED <<taskVars, exceptUp>>
    \/ BackendSettles("throws") /\ UNCHANGED <<taskVars, exceptUp>>
    \/ CooldownElapsed /\ UNCHANGED <<taskVars, exceptUp>>

SpecQueue == Init /\ [][NextQueue]_vars

(* The batches: the user picks the first MaxPick slices one by one, and    *)
(* starts a batch when the output area has room for its results.           *)
NextUpscale ==
    \/ DisplaySlices
    \/ \E k \in 1..MaxPick :
           addToProcessing(k) /\ UNCHANGED <<taskVars, exceptUp>>
    \/ \E k \in 1..Len(processingQueue) :
           removeFromProcessing(k) /\ UNCHANGED <<taskVars, exceptUp>>
    \/ \E confirmed \in BOOLEAN :
           handleClearProcessing(confirmed) /\ UNCHANGED <<taskVars, exceptUp>>
    \/ \E model \in UpscaleModels :
           setUpscaleModel(model) /\ UNCHANGED <<taskVars, exceptUp>>
    \/ \E confirmed \in BOOLEAN :
           handleClearOutput(confirmed) /\ UNCHANGED <<taskVars, exceptUp>>
    \/ \E useMock \in BOOLEAN :
           /\ Len(upscaledResults) + Len(processingQueue) <= MaxResults
           /\ handleUpscaleClick(useMock)
           /\ UNCHANGED <<taskVars, exceptUp>>
    \/ \E outcome \in {"data", "http", "blob", "throws"} :
           BackendSettles(outcome) /\ UNCHANGED <<taskVars, exceptUp>>
    \/ \E ok \in BOOLEAN : ConvertSettles(ok) /\ UNCHANGED <<taskVars, exceptUp>>
    \/ CooldownElapsed /\ UNCHANGED <<taskVars, exceptUp>>
    \/ PauseElapsed /\ UNCHANGED <<taskVars, exceptUp>>

SpecUpscale == Init /\ [][NextUpscale]_vars

(* The video cards, their generations and the merge *)
NextVideo ==
    \/ handleFileUpload /\ UNCHANGED exceptVideo
    \/ \E index \in 0..(Len(cards) - 1) :
           updatePrompt(index) /\ UNCHANGED exceptVideo
    \/ \E index \in 0..(Len(cards) - 1) :
           deleteCard(index) /\ UNCHANGED exceptVideo
    \/ \E index \in 0..(Len(cards) - 1), apiKey \in BOOLEAN :
           handleGenerateVideo(index, apiKey) /\ UNCHANGED exceptVideo
    \/ \E g \in GenSlots : ProgressReported(g) /\ UNCHANGED exceptVideo
    \/ \E g \in GenSlots, reason \in VideoReasons :
           VideoSettles(g, reason) /\ UNCHANGED exceptVideo
    \/ \E recorderOk \in BOOLEAN :
           handleMergeVideos(recorderOk) /\ UNCHANGED exceptVideo
    \/ MediaEnds("ended") /\ UNCHANGED exceptVideo
    \/ MergeStops /\ UNCHANGED exceptVideo

SpecVideo == Init /\ [][NextVideo]_vars

(* The cards with their generations, the reorder by drag and the preview   *)
(* player; no merge is started.                                            *)
NextPanel ==
    \/ TrackUpload /\ UNCHANGED exceptPanel
    \/ \E index \in 0..(Len(cards) - 1) :
           TrackDelete(index) /\ UNCHANGED exceptPanel
    \/ \E index \in 0..(Len(cards) - 1) :
           TrackGenerate(index) /\ UNCHANGED exceptPanel
    \/ \E g \in GenSlots :
           ProgressReported(g) /\ UNCHANGED panel /\ UNCHANGED exceptPanel
    \/ \E g \in GenSlots, reason \in {"none", "internal_error"} :
           TrackSettles(g, reason) /\ UNCHANGED exceptPanel
    \/ \E index \in 0..(Len(cards) - 1) :
           handleCardDragStart(index) /\ UNCHANGED exceptPanel
    \/ \E index \in 0..(Len(cards) - 1) :
           handleDragOver(index) /\ UNCHANGED exceptPanel
    \/ DragEnds /\ UNCHANGED exceptPanel
    \/ togglePlay /\ UNCHANGED exceptPanel
    \/ playNext /\ UNCHANGED exceptPanel

SpecPanel == Init /\ [][NextPanel]_vars

(* The merge with every event of its video element, over cards that are    *)
(* uploaded, generated and regenerated one at a time (each generation     *)
(* succeeds), and deleted; every clip ends or fails and the recorder       *)
(* stops.                                                                  *)
NextMerge ==
    \/ handleFileUpload /\ UNCHANGED exceptVideo
    \/ \E index \in 0..(Len(cards) - 1) :
           deleteCard(index) /\ UNCHANGED exceptVideo
    \/ \E index \in 0..(Len(cards) - 1) :
           /\ \A g \in GenSlots : gens[g].pc = "idle"
           /\ handleGenerateVideo(index, TRUE)
           /\ UNCHANGED exceptVideo
    \/ \E g \in GenSlots :
           VideoSettles(g, "none") /\ UNCHANGED exceptVideo
    \/ \E recorderOk \in BOOLEAN :
           handleMergeVideos(recorderOk) /\ UNCHANGED exceptVideo
    \/ \E kind \in {"ended", "error"} :
           MediaEnds(kind) /\ UNCHANGED exceptVideo
    \/ \E clip \in 0..(MaxCards - 1), rejected \in BOOLEAN :
           PlaySettles(clip, rejected) /\ UNCHANGED exceptVideo
    \/ MergeStops /\ UNCHANGED exceptVideo

SpecMerge ==
    /\ Init
    /\ [][NextMerge]_vars
    /\ WF_vars((\E kind \in {"ended", "error"} : MediaEnds(kind))
                  /\ UNCHANGED exceptVideo)
    /\ WF_vars(MergeStops /\ UNCHANGED exceptVideo)

(* The panel from its mount, with the store left by an earlier session and *)
(* one generation at a time, which fails; every timeout and every transaction of the    *)
(* store ends.                                                             *)
InitStore ==
    /\ InitTasks
    /\ call = IdleCall
    /\ InitUpscale
    /\ InitVideo
    /\ args = NoArgs
    /\ result = NoResult
    /\ click = IdleClick
    /\ panel = IdlePanel
    /\ db \in {ClosedDb(<<>>), ClosedDb(<<NewCard>>),
               ClosedDb(<<SavedLoadingCard>>)}

NextStore ==
    \/ \E ok \in BOOLEAN : LoadSettles(ok) /\ UNCHANGED exceptStore
    \/ CardsChange(handleFileUpload) /\ UNCHANGED exceptStore
    \/ \E index \in 0..(Len(cards) - 1) :
           CardsChange(deleteCard(index)) /\ UNCHANGED exceptStore
    \/ \E index \in 0..(Len(cards) - 1) :
           /\ \A g \in GenSlots : gens[g].pc = "idle"
           /\ CardsChange(handleGenerateVideo(index, TRUE))
           /\ UNCHANGED exceptStore
    \/ \E g \in GenSlots :
           /\ CardsChange(VideoSettles(g, "internal_error"))
           /\ UNCHANGED exceptStore
    \/ TimerFires /\ UNCHANGED exceptStore
    \/ SaveEnds /\ UNCHANGED exceptStore

SpecStore ==
    /\ InitStore
    /\ [][NextStore]_vars
    /\ WF_vars((\E ok \in BOOLEAN : LoadSettles(ok)) /\ UNCHANGED exceptStore)
    /\ WF_vars(TimerFires /\ UNCHANGED exceptStore)
    /\ WF_vars(SaveEnds /\ UNCHANGED exceptStore)

(* The Generate button under every interleaving of clicks, timeouts and   *)
(* the passing of time                                                     *)
NextSubmit ==
    \/ \E promptEmpty, useMock, configOk, hasAssets \in BOOLEAN,
          model \in ClickModels :
           handleGenerateClick(promptEmpty, useMock, configOk, model,
                               hasAssets)
           /\ UNCHANGED exceptClick
    \/ LocalProcessingEnds /\ UNCHANGED exceptClick
    \/ SubmitTimerFires /\ UNCHANGED exceptClick
    \/ \E d \in Delays : TimePasses(d) /\ UNCHANGED exceptClick
    \/ \E id \in 0..MaxMs : ProcessFails(id) /\ UNCHANGED exceptClick
    \/ closeErrorModal /\ UNCHANGED exceptTasks

SpecSubmit == Init /\ [][NextSubmit]_vars

(* The two functions on every call of FnCalls *)
InitFn ==
    /\ InitComponents
    /\ args \in FnCalls
    /\ result = NoResult

NextFn ==
    \/ performSlicingReturns /\ UNCHANGED exceptFn
    \/ calculateImageDimensionsReturns /\ UNCHANGED exceptFn
    \/ extractImageReturns /\ UNCHANGED exceptFn

SpecFn == InitFn /\ [][NextFn]_vars

-----
(* Properties *)

HasTask(ts, id) == \E i \in 1..Len(ts) : ts[i].id = id
TaskOf(ts, id) == ts[CHOOSE i \in 1..Len(ts) : ts[i].id = id]
Terminal == {"success", "error"}
InFlight == {"assets", "remote", "refetch", "slicing"}

C5_NoIdNoPoll ==
    call.submitResp = "noid"
        => /\ call.pc = "thrown"
           /\ call.message = MsgNoTaskId
           /\ call.polls = 0
           /\ call.requests = 1

(* C5 witness: a video job whose submit response has no id *)
C5_Witness ==
    /\ call.kind = "video"
    /\ call.submitResp = "noid"
    /\ call.pc = "thrown"

C7_BatchAttemptsAll ==
    /\ [](batch.pc \in {"backend", "convert", "cooldown", "pause"}
            => ENABLED BatchStep)
    /\ [](/\ Len(batch.attempted) <= Len(batch.queue)
          /\ \A k \in 1..Len(batch.attempted) :
                 batch.attempted[k] = batch.queue[k].id
          /\ batch.pc = "finished"
                 => Len(batch.attempted) = Len(batch.queue)
          /\ IF batch.pc = "convert"
             THEN batch.returned =
                      Append(batch.produced, batch.queue[batch.i].id)
             ELSE batch.returned = batch.produced)
    /\ [][Len(batch'.produced) > Len(batch.produced)
            => /\ batch'.produced =
                      Append(batch.produced, batch.queue[batch.i].id)
               /\ Len(upscaledResults') = Len(upscaledResults) + 1
               /\ upscaledResults'[Len(upscaledResults')].originalId =
                      batch.queue[batch.i].id]_vars

(* C7 witness: a handleUpscale batch of two items has finished; the        *)
(* backend failed on the first item and returned for the second, whose     *)
(* result is in the output area                                            *)
C7_Witness ==
    /\ batch.kind = "app"
    /\ batch.pc = "finished"
    /\ Len(batch.queue) = 2
    /\ batch.returned = <<batch.queue[2].id>>
    /\ Len(upscaledResults) = 1
    /\ upscaledResults[1].originalId = batch.queue[2].id

(* C8 as claimed: whenever there is a merged output, no card has been     *)
(* edited, deleted or regenerated, and no card update of a generation has  *)
(* arrived, since the merge that produced it began.                        *)
C8_MergedOutputCurrent ==
    mergeState.mergedUrl # NULL => ~merge.dirty

(* C9 as claimed: for every card, videoUrl is set iff status is success.   *)
C9_VideoUrlIffSuccess ==
    \A k \in 1..Len(cards) :
        cards[k] # UNDEFINED
            => (cards[k].videoUrl # NULL <=> cards[k].status = "success")

(* C11: the clips of a merge are loaded one at a time in the order of the  *)
(* list: clip i+1 is assigned to the video element only once step i has    *)
(* resolved, while step i is awaited the element holds clip i and the      *)
(* handlers of step i, and step i is resolved by an event of clip i, never *)
(* by an event of an earlier clip.                                         *)
C11_ClipsSequential ==
    /\ Len(merge.resolvedBy) = merge.i
    /\ \A k \in 1..Len(merge.resolvedBy) : merge.resolvedBy[k] = k - 1
    /\ Len(merge.loaded) = (IF merge.i < merge.clips THEN merge.i + 1
                            ELSE merge.clips)
    /\ \A k \in 1..Len(merge.loaded) : merge.loaded[k] = k - 1
    /\ merge.pc = "clip" => merge.src = merge.i /\ merge.handler = merge.i

(* C11 witness: both steps of a merge of two clips have resolved, and the  *)
(* rejected play() of a clip has called the resolve of a step that had     *)
(* resolved before                                                         *)
C11_Witness ==
    /\ merge.late
    /\ merge.clips = 2
    /\ Len(merge.resolvedBy) = 2

C14_DimensionsAligned ==
    result.fn = "calculateImageDimensions" =>
        LET q == args.params.quality
            canonical == IF q = "1k" THEN 1024
                         ELSE IF q = "2k" THEN 1920 ELSE 3840
            long == IF result.finalW >= result.finalH THEN result.finalW
                    ELSE result.finalH
        IN  /\ result.finalW % 8 = 0
            /\ result.finalH % 8 = 0
            /\ long = canonical
            /\ (q = "4k" /\ args.params.shotSize = [w |-> 1920, h |-> 1080])
                  => (result.finalW = 3840 /\ result.finalH = 2160)

(* C14 witness: the 4k call with a shot of 1920x1080 has returned *)
C14_Witness ==
    /\ result.fn = "calculateImageDimensions"
    /\ args.params.quality = "4k"
    /\ args.params.shotSize = [w |-> 1920, h |-> 1080]
    /\ result.finalW = 3840
    /\ result.finalH = 2160

(* C15 as claimed: currentTaskId is null or the id of a task of the list,  *)
(* also when a task was deleted while loading and its generation finished   *)
(* afterwards.                                                             *)
C15_CurrentTaskInList ==
    currentTaskId = 0 \/ HasTask(tasks, currentTaskId)

OtherSucceeds ==
    OtherRemoteSettles("succeeded") /\ proc'[OtherTask].pc = "refetch"

(* C17: with two tasks loading at once, the second task is never kept     *)
(* waiting (a step of its processing is enabled whenever it is in flight), *)
(* its remote request can still succeed after the signal of the first task *)
(* is raised, no step of the first task or of its call, the raising of its *)
(* signal included, changes the second task's processing or its entry of   *)
(* the list, and the second task reaches success or error.                 *)
C17_OwnCancellationToken ==
    /\ [](proc[OtherTask].pc \in InFlight => ENABLED OtherStep)
    /\ []((proc[OtherTask].pc = "remote" /\ ~proc[OtherTask].useMock)
              => ENABLED OtherSucceeds)
    /\ [][(call' # call \/ proc'[CallTask] # proc[CallTask])
             => /\ proc'[OtherTask] = proc[OtherTask]
                /\ HasTask(tasks', OtherTask) = HasTask(tasks, OtherTask)
                /\ HasTask(tasks, OtherTask)
                      => TaskOf(tasks', OtherTask) = TaskOf(tasks, OtherTask)
           ]_vars
    /\ (proc[OtherTask].pc \in InFlight)
          ~> (/\ proc[OtherTask].pc = "done"
              /\ TaskOf(tasks, OtherTask).status \in {"success", "error"})

(* The first task was cancelled while both were loading, and the second    *)
(* has ended in success.                                                   *)
C17_Witness ==
    /\ call.aborted
    /\ proc[CallTask].pc = "done"
    /\ HasTask(tasks, CallTask) /\ TaskOf(tasks, CallTask).status = "error"
    /\ proc[OtherTask].pc = "done"
    /\ HasTask(tasks, OtherTask) /\ TaskOf(tasks, OtherTask).status = "success"

(* C18: a call of generateSoraImage, generateGrsaiImage or                 *)
(* generateSoraVideo whose config lacks baseUrl or apiKey sends no request *)
(* and throws the configuration error as its first step, and a click on    *)
(* GENERATE in non-mock mode with such a config shows the error modal and  *)
(* adds no task and starts no processing.                                  *)
C18_ConfigMissingFailsFast ==
    /\ [](~call.configOk
            => /\ call.requests = 0
               /\ call.polls = 0
               /\ call.pc \in {"idle", "thrown"}
               /\ call.pc = "thrown" => call.message = MsgConfigMissing)
    /\ [][(~call.configOk /\ call' # call)
            => (call.pc = "idle" /\ call'.pc = "thrown")]_vars
    /\ [][(\E model \in CallModels : handleGenerateUnconfigured(model))
            => /\ errorModal'.visible
               /\ tasks' = tasks
               /\ proc' = proc
               /\ call' = call]_vars

(* An image call of each protocol and a video call have thrown the         *)
(* configuration error, beside a refused click.                            *)
C18_Witness ==
    /\ ~call.configOk
    /\ call.kind \in {"sora", "nano", "gemini", "video"}
    /\ call.pc = "thrown"
    /\ call.requests = 0
    /\ errorModal.visible
    /\ tasks = <<>>

(* The position of an item of the queue of the running batch *)
QueuePos(id) == CHOOSE k \in 1..Len(batch.queue) : batch.queue[k].id = id

(* C19: the list of results changes only by the confirmed clear, which     *)
(* empties it, or by a batch appending one result for the item whose       *)
(* backend call has succeeded, with the aspect ratio and the id of that    *)
(* item, the results before it kept as they are; a batch appends one       *)
(* result for each item that succeeded and for no other, in the order of   *)
(* its queue.                                                              *)
C19_ResultsAppendOnly ==
    /\ [][upscaledResults' # upscaledResults
            => \/ /\ upscaledResults' = <<>>
                  /\ batch' = batch
               \/ /\ batch.pc \in {"backend", "convert"}
                  /\ Len(upscaledResults') = Len(upscaledResults) + 1
                  /\ SubSeq(upscaledResults', 1, Len(upscaledResults))
                        = upscaledResults
                  /\ LET r == upscaledResults'[Len(upscaledResults')]
                         item == batch.queue[batch.i]
                     IN  /\ r.originalId = item.id
                         /\ r.aspectRatio = item.aspectRatio
                         /\ batch'.produced = Append(batch.produced, item.id)
           ]_vars
    /\ [][Len(batch'.produced) > Len(batch.produced)
            => Len(upscaledResults') = Len(upscaledResults) + 1]_vars
    /\ [](/\ \A a, b \in 1..Len(batch.produced) :
                 a < b => QueuePos(batch.produced[a])
                              < QueuePos(batch.produced[b])
          /\ batch.pc = "finished" => batch.produced = batch.returned)

(* A batch of two items has ended with a result for each, in the order of  *)
(* its queue.                                                              *)
C19_Witness ==
    /\ batch.pc = "finished"
    /\ Len(batch.queue) = 2
    /\ Len(batch.produced) = 2
    /\ Len(upscaledResults) >= 2
    /\ upscaledResults[Len(upscaledResults) - 1].originalId = batch.queue[1].id
    /\ upscaledResults[Len(upscaledResults)].originalId = batch.queue[2].id
    /\ upscaledResults[Len(upscaledResults)].aspectRatio
          = batch.queue[2].aspectRatio

(* C20 as claimed: no step of a batch, from the click that starts it to    *)
(* its end, changes the processing queue, whichever model is selected.     *)
C20_BatchKeepsQueue ==
    [][batch' # batch => processingQueue' = processingQueue]_vars

(* C21: a call of handleMergeVideos whose setup throws leaves the merge    *)
(* state idle (isMerging false, progress 0, no mergedUrl), with the alert  *)
(* of the catch block, and plays no clip; every merge that has gone on to  *)
(* its clips ends with a mergedUrl: a run is left only by the recorder's   *)
(* stop, which sets the mergedUrl, and is always left.                     *)
C21_SetupFailureResetsMerge ==
    /\ [][(merge'.failed /\ merge' # merge)
            => /\ mergeState' = IdleMerge
               /\ merge.pc = "idle" /\ merge'.pc = "idle"
               /\ merge'.loaded = merge.loaded]_vars
    /\ [](merge.failed => merge.pc = "idle")
    /\ [][(merge.pc # "idle" /\ merge'.pc = "idle")
            => (~merge'.failed /\ mergeState'.mergedUrl # NULL)]_vars
    /\ (merge.pc # "idle") ~> (merge.pc = "idle" /\ mergeState.mergedUrl # NULL)

(* The setup of a merge has failed after an earlier merge of two clips had *)
(* finished and a card had been changed.                                   *)
C21_Witness ==
    /\ merge.failed
    /\ merge.clips = 2
    /\ merge.i = 2
    /\ mergeState = IdleMerge
    /\ Len(generatedVideos(cards)) >= 2

(* C22: a failure of the conversion of the assets, of the remote call      *)
(* (its Error thrown at any request or poll) or of the slicing ends the    *)
(* processing of the task with status error on it; a task whose processing *)
(* has returned is never loading; and a task becomes success only in the   *)
(* step in which its slicing succeeds.                                     *)
C22_FailuresCaught ==
    /\ [](HasTask(tasks, CallTask) =>
            (proc[CallTask].pc = "done"
                => TaskOf(tasks, CallTask).status \in Terminal))
    /\ [][(\/ AssetsSettle(CallTask, FALSE)
           \/ SlicingSettles(CallTask, FALSE)
           \/ (call.pc # "thrown" /\ call'.pc = "thrown" /\ ~Detached(call)))
            => /\ proc'[CallTask].pc = "done"
               /\ TaskOf(tasks', CallTask).status = "error"
               /\ TaskOf(tasks', CallTask).imageUrl = NULL]_vars
    /\ [][(HasTask(tasks', CallTask)
             /\ TaskOf(tasks', CallTask).status = "success"
             /\ TaskOf(tasks, CallTask).status # "success")
            => SlicingSettles(CallTask, TRUE)]_vars

(* The remote call returned an image, its slicing failed, and the task is  *)
(* in error.                                                               *)
C22_Witness ==
    /\ call.pc = "returned"
    /\ proc[CallTask].pc = "done"
    /\ TaskOf(tasks, CallTask).status = "error"
    /\ errorModal.visible

C24_StoreFollowsCards ==
    /\ [](~db.loaded => (~db.timer /\ db.saves = <<>>))
    /\ [][db'.store # db.store
            => (Len(db.saves) > 0 /\ db'.store = Head(db.saves))]_vars
    /\ (<>[][cards' = cards]_vars) => <>[](db.store = cards)

(* C25: a call of the streamed-or-buffered branch of generateGrsaiImage    *)
(* sends at most two requests; the second is sent only after the retry     *)
(* delay that follows a first failure which is not a client error (network *)
(* failure, 5xx, or a response without usable content); and a 404, a 429   *)
(* or another 4xx response ends the call in the step in which it arrives,  *)
(* without a further request.                                              *)
C25_BoundedRetry ==
    /\ [](call.kind = "gemini" =>
            /\ call.requests <= MAX_RETRIES + 1
            /\ call.attempt <= MAX_RETRIES
            /\ (call.attempt > 0 /\ call.pc \in {"retryDelay", "stream"})
                  => call.message \in {MsgNetwork, MsgServerError,
                                       MsgCandidatesEmpty, MsgNoImage})
    /\ [][call.kind = "gemini" =>
            /\ (call'.requests # call.requests /\ call.requests > 0)
                  => (call.pc = "retryDelay"
                      /\ call'.requests = call.requests + 1)
            /\ (call.pc = "stream" /\ call'.pc # "stream"
                 /\ call'.lastPoll \in {"404", "429", "4xx"})
                  => (call'.pc = "thrown"
                      /\ call'.requests = call.requests
                      /\ call'.message \in {Msg404, Msg429, MsgClientError})
         ]_vars

(* A call has returned an image from its second request, sent after a 5xx  *)
(* response to the first.                                                  *)
C25_Witness ==
    /\ call.kind = "gemini"
    /\ call.pc = "returned"
    /\ call.requests = 2
    /\ call.message = MsgServerError

(* C26: no two tasks of the task list have the same id, and a status     *)
(* update addressed to an id changes exactly one task of the list.         *)
C26_TaskIdsUnique ==
    /\ [](\A i, j \in 1..Len(tasks) : i < j => tasks[i].id # tasks[j].id)
    /\ [][(tasks' # tasks /\ Len(tasks') = Len(tasks)) =>
            Cardinality({i \in 1..Len(tasks) : tasks'[i] # tasks[i]}) = 1
         ]_vars

(* C27: no step of a running batch takes from the processing queue an     *)
(* item that the batch has not passed to the backend: an item added to the *)
(* queue while the batch runs is still queued when the batch is over.      *)
C27_BatchKeepsLaterItems ==
    [][batch' # batch =>
          \A k \in 1..Len(processingQueue) :
              \/ InQueue(processingQueue', processingQueue[k].id)
              \/ \E a \in 1..Len(batch'.attempted) :
                     batch'.attempted[a] = processingQueue[k].id
      ]_vars

(* C29: in a batch, the backend call of the first item starts without a   *)
(* wait, and the backend call of every later item starts at the end of a   *)
(* wait (the cooldown or the pause), whether the call before it returned   *)
(* or threw.                                                               *)
C29_CooldownBetweenCalls ==
    [][batch'.attempted # batch.attempted =>
          IF Len(batch'.attempted) = 1
          THEN batch.pc \notin {"cooldown", "pause"}
          ELSE batch.pc \in {"cooldown", "pause"}
      ]_vars

(* C28: the polls of a call are sequential: a poll request is sent only   *)
(* at the end of the delay and when no poll of the call is unanswered, one *)
(* request at a time; and when the response of a poll has been handled the *)
(* call has ended, fetches the result, or is in the delay before the next  *)
(* poll.  (A step to pc "idle" is the start of another call.)              *)
C28_PollsSequential ==
    /\ [][(call'.polls # call.polls /\ call'.pc # "idle") =>
            /\ call'.polls = call.polls + 1
            /\ call.pc = "sleep"
            /\ call'.pc = "poll"
            /\ call.lastPoll # "pending"
            /\ call'.lastPoll = "pending"
         ]_vars
    /\ [][(call.pc = "poll" /\ call'.pc \notin {"poll", "idle"}) =>
            /\ call'.polls = call.polls
            /\ call'.lastPoll \in PollResponses
            /\ call'.pc \in {"sleep", "refetch", "returned", "thrown"}
         ]_vars
    /\ [](call.lastPoll = "pending" => call.pc = "poll")

(* The third poll of a video call is in flight, after two polls that were  *)
(* answered                                                                *)
C28_Witness ==
    /\ call.kind = "video"
    /\ call.pc = "poll"
    /\ call.polls = 3
    /\ call.i = 2

(* C30: a playback error of the clip that a merge is waiting for (error   *)
(* event or rejected play()) ends the step of that clip and nothing else:  *)
(* the merge goes on to the next clip, or to the stop of the recorder      *)
(* after the last clip, and stays in progress; and a merge in which a clip *)
(* had a playback error still loads every clip and finishes with a         *)
(* mergedUrl.                                                              *)
C30_PlaybackErrorSkips ==
    /\ [][(/\ merge.pc = "clip"
           /\ merge'.erred
           /\ merge'.pc # merge.pc \/ merge'.i # merge.i
           /\ \/ MediaEnds("error")
              \/ PlaySettles(merge.i, TRUE)) =>
            /\ merge'.i = merge.i + 1
            /\ merge'.clips = merge.clips
            /\ ~merge'.failed
            /\ mergeState'.isMerging = mergeState.isMerging
            /\ mergeState'.mergedUrl = mergeState.mergedUrl
            /\ IF merge'.i < merge.clips
               THEN merge'.pc = "clip" /\ merge'.src = merge'.i
               ELSE merge'.pc = "stopping"
         ]_vars
    /\ (merge.pc # "idle" /\ merge.erred)
          ~> (/\ merge.pc = "idle"
              /\ merge.erred
              /\ ~merge.failed
              /\ Len(merge.loaded) = merge.clips
              /\ mergeState.mergedUrl # NULL)

(* A merge of two clips has finished with a mergedUrl although a clip had  *)
(* a playback error                                                        *)
C30_Witness ==
    /\ merge.pc = "idle"
    /\ merge.clips = 2
    /\ merge.erred
    /\ merge.resolvedBy = <<0, 1>>
    /\ Len(merge.loaded) = 2
    /\ mergeState.mergedUrl # NULL

(* C31 as claimed: the re-fetch of the result of an image call ends the    *)
(* call with a return, never with an error, and the URL returned is the    *)
(* blob URL of the image if the re-fetch got the image and the remote URL  *)
(* of the job otherwise.                                                   *)
C31_RefetchFallsBack ==
    [][(call.pc = "refetch" /\ call'.pc \notin {"refetch", "idle"}) =>
          /\ call'.pc = "returned"
          /\ call'.url \in {Url("blob", CallTask), Url("remote", CallTask)}
      ]_vars

(* C32: the extraction returns the image of the first candidate that is   *)
(* not safety-filtered and carries image data (inline data, or a link, URL *)
(* or data URL in its text), whatever precedes it, and throws only when    *)
(* there is no such candidate.                                             *)
C32_SafetySkipped ==
    result.fn = "extractImage" =>
        LET all == args.allCandidates
            good == {k \in 1..Len(all) :
                        /\ all[k].finishReason # "SAFETY"
                        /\ \/ all[k].inline
                           \/ all[k].text \in {"markdown", "url", "dataUrl"}}
        IN  IF good = {}
            THEN result.threw # "" /\ result.image = "none"
            ELSE /\ result.threw = ""
                 /\ result.of \in good
                 /\ \A k \in good : result.of <= k
                 /\ result.image = (IF all[result.of].inline THEN "inline"
                                    ELSE all[result.of].text)

(* C32 witness: the first candidate is safety-filtered although it has     *)
(* inline data, the second has text without an image, and the URL of the   *)
(* third is returned                                                       *)
C32_Witness ==
    /\ result.fn = "extractImage"
    /\ Len(args.allCandidates) = 3
    /\ args.allCandidates[1] =
           [finishReason |-> "SAFETY", inline |-> TRUE, text |-> "none"]
    /\ args.allCandidates[2] =
           [finishReason |-> "STOP", inline |-> FALSE, text |-> "plain"]
    /\ result.threw = ""
    /\ result.of = 3
    /\ result.image = "url"

(* C33: when a generation is rejected with the failure reason             *)
(* output_moderation its card gets the moderation message, which is not    *)
(* the generic one, and with any other failure the generic message         *)
C33_ModerationMessage ==
    [][\A g \in GenSlots :
          (gens[g].pc = "video" /\ gens'[g].pc = "idle"
             /\ gens'[g].reason # "none") =>
             LET card == cards'[gens[g].index + 1]
             IN  /\ card.status = "error"
                 /\ MsgWeiGuoShenHe # MsgShengChengShiBai
                 /\ card.errorMsg = IF gens'[g].reason = "output_moderation"
                                    THEN MsgWeiGuoShenHe
                                    ELSE MsgShengChengShiBai
      ]_vars

(* C34: the update of a settling generation (success or error) and every  *)
(* progress update change the card the generation was started for,        *)
(* wherever deletions, uploads and reorders have moved it, and nothing     *)
(* else: the list keeps its length, every other entry stays as it is and   *)
(* every entry has an id                                                   *)
C34_UpdatesReachTheirCard ==
    [][LET Kept(p) ==
               /\ Len(cards') = Len(cards)
               /\ \A k \in 1..Len(cards) : k # p + 1 => cards'[k] = cards[k]
               /\ \A k \in 1..Len(cards') :
                      cards'[k] # UNDEFINED /\ cards'[k].id # "undefined"
           Progress(g) ==
               /\ gens[g].pc = "video"
               /\ cards' = WriteAt(cards, gens[g].index, [progress |-> 50])
       IN  /\ \A g \in GenSlots :
                (gens[g].pc = "video" /\ gens'[g].pc = "idle") =>
                    /\ Kept(panel.at[g])
                    /\ panel.at[g] # -1 =>
                           cards'[panel.at[g] + 1].status
                               \in {"success", "error"}
           /\ (gens' = gens /\ cards' # cards
                  /\ \E g \in GenSlots : Progress(g)) =>
                  \E g \in GenSlots :
                      /\ Progress(g)
                      /\ panel.at[g] = gens[g].index
                      /\ Kept(panel.at[g])
      ]_vars

(* C35: every card in status loading has a running handleGenerateVideo    *)
(* that writes to its position, also after the cards were restored from    *)
(* the store                                                               *)
C35_LoadingHasCall ==
    \A k \in 1..Len(cards) :
        (cards[k] # UNDEFINED /\ cards[k].status = "loading") =>
            \E g \in GenSlots :
                gens[g].pc = "video" /\ gens[g].index = k - 1

(* C36: while a merge runs, from its start until its recorder has stopped *)
(* or its setup has failed, mergeState.isMerging is true, whatever card    *)
(* updates happen meanwhile                                                *)
C36_MergingWhileMergeRuns ==
    merge.pc \in {"clip", "stopping"} => mergeState.isMerging

(* C37: whenever currentTaskId is not null, a task of the list has that   *)
(* id, its status is success, and generatedImage and slicedImages are its  *)
(* imageUrl and its slices                                                 *)
C37_CurrentTaskDisplayed ==
    currentTaskId # 0 =>
        /\ HasTask(tasks, currentTaskId)
        /\ TaskOf(tasks, currentTaskId).status = "success"
        /\ generatedImage = TaskOf(tasks, currentTaskId).imageUrl
        /\ slicedImages = TaskOf(tasks, currentTaskId).slices

(* C38: whenever there are generated videos, synthesisState.currentIndex  *)
(* is an index of their list (0-based, below its length)                   *)
C38_CurrentIndexValid ==
    (CardsRendered /\ Len(generatedVideos(cards)) > 0) =>
        panel.synthesisState.currentIndex \in
            0..(Len(generatedVideos(cards)) - 1)

(* C10: no two items of the processing queue have the same id, whatever    *)
(* sequence of addToProcessing, addAllToProcessing, removeFromProcessing,  *)
(* handleDrop, handleClearProcessing and batch endings produced it.        *)
C10_NoDuplicateIds ==
    \A i, j \in 1..Len(processingQueue) :
        (i < j /\ processingQueue[i] # UNDEFINED
               /\ processingQueue[j] # UNDEFINED)
            => processingQueue[i].id # processingQueue[j].id

(* C10 witness: the four slices are queued, the last slice first, after a  *)
(* drop                                                                    *)
C10_Witness ==
    /\ Len(slicedImages) = 4
    /\ Len(processingQueue) = 4
    /\ processingQueue[1] = slicedImages[4]
    /\ processingQueue[2] = slicedImages[1]
    /\ draggedIndex = -1

====
